---- MODULE Spec2Model ----
(***************************************************************************)
(* AstroStep focuser driver (indi_astrostep.cpp / indi_astrostep.h).       *)
(*                                                                         *)
(* Wire strings are sequences of one-character strings, so that formatting *)
(* (snprintf) and parsing (sscanf, strstr) are computed as the C library   *)
(* computes them.  32-bit integers are kept by their two's complement bit  *)
(* pattern read as int32: a uint32_t u >= 2^31 is held as u - 2^32.        *)
(***************************************************************************)
EXTENDS Integers, Sequences, FiniteSets, TLC

\* ------------------------------------------------------------------------
\* Characters and integer widths
\* ------------------------------------------------------------------------

Digits == <<"0", "1", "2", "3", "4", "5", "6", "7", "8", "9">>

DigitChars == {Digits[i] : i \in 1..10}

OctalChars == {Digits[i] : i \in 1..8}

DigitChar(d) == Digits[d + 1]

DigitVal(c) == CHOOSE d \in 0..9 : Digits[d + 1] = c

INT32_MAX == 2147483647

INT32_MIN == -2147483647 - 1

\* F applied to the value of v, with v evaluated once.
Bind(v, F(_)) == CHOOSE r \in {F(x) : x \in {v}} : TRUE

\* ------------------------------------------------------------------------
\* printf conversions
\* ------------------------------------------------------------------------

RECURSIVE DecDigits(_)
\* The decimal digits of n >= 0, most significant first.
DecDigits(n) ==
    IF n < 10 THEN <<DigitChar(n)>>
    ELSE DecDigits(n \div 10) \o <<DigitChar(n % 10)>>

RECURSIVE ZeroPad(_, _)
\* Left-pad s with '0' to at least w characters (printf's 0 flag).
ZeroPad(s, w) == IF Len(s) >= w THEN s ELSE ZeroPad(<<"0">> \o s, w)

\* printf("%i") / printf("%d") of an int.
FmtInt(v) ==
    IF v >= 0 THEN DecDigits(v)
    ELSE IF v = INT32_MIN
         THEN <<"-", "2", "1", "4", "7", "4", "8", "3", "6", "4", "8">>
         ELSE <<"-">> \o DecDigits(-v)

\* Fault injection: the conversion without its zero padding.
FmtUnpadded(v) == FmtInt(v)

\* printf("%09i") of the int whose bit pattern is v: minimum field width 9,
\* zero padded, the sign (if any) counted in the width.
Fmt09i(v) ==
    IF v >= 0 THEN ZeroPad(DecDigits(v), 9)
    ELSE IF v = INT32_MIN
         THEN <<"-", "2", "1", "4", "7", "4", "8", "3", "6", "4", "8">>
         ELSE <<"-">> \o ZeroPad(DecDigits(-v), 8)

\* ------------------------------------------------------------------------
\* scanf conversions.  A conversion yields [ok, val, rest]: whether a value
\* was assigned, the value, and the input left after it.
\* ------------------------------------------------------------------------

NoConv(s) == [ok |-> FALSE, val |-> 0, rest |-> s]

RECURSIVE SkipSpace(_)
SkipSpace(s) == IF s # <<>> /\ Head(s) = " " THEN SkipSpace(Tail(s)) ELSE s

RECURSIVE ScanDigits(_, _, _, _, _)
\* Consume the longest run of characters of `chars`, accumulating in `base`;
\* n counts the digits consumed.  Values past INT32_MAX saturate (strtol).
ScanDigits(s, chars, base, acc, n) ==
    IF s # <<>> /\ Head(s) \in chars
    THEN Bind(DigitVal(Head(s)), LAMBDA d :
         Bind(IF acc > (INT32_MAX - d) \div base THEN INT32_MAX
              ELSE acc * base + d, LAMBDA nxt :
            ScanDigits(Tail(s), chars, base, nxt, n + 1)))
    ELSE [n |-> n, val |-> acc, rest |-> s]

\* The optional sign of a numeric conversion.
ScanSign(s) ==
    IF s # <<>> /\ Head(s) = "-" THEN [neg |-> TRUE, rest |-> Tail(s)]
    ELSE IF s # <<>> /\ Head(s) = "+" THEN [neg |-> FALSE, rest |-> Tail(s)]
    ELSE [neg |-> FALSE, rest |-> s]

\* scanf("%d"): optional white space, optional sign, decimal digits.
ScanD(s0) ==
    Bind(ScanSign(SkipSpace(s0)), LAMBDA sg :
    Bind(ScanDigits(sg.rest, DigitChars, 10, 0, 0), LAMBDA r :
        IF r.n = 0 THEN NoConv(s0)
        ELSE [ok |-> TRUE, val |-> IF sg.neg THEN -r.val ELSE r.val,
              rest |-> r.rest]))

\* scanf("%i"): as %d, but the base is taken from the prefix as strtol with
\* base 0 takes it: a leading "0" makes the number octal.  (The "0x" prefix
\* is not modelled: 'x' ends the number after the leading zero.)
ScanI(s0) ==
    Bind(ScanSign(SkipSpace(s0)), LAMBDA sg :
    Bind(IF sg.rest # <<>> /\ Head(sg.rest) = "0"
         THEN ScanDigits(sg.rest, OctalChars, 8, 0, 0)
         ELSE ScanDigits(sg.rest, DigitChars, 10, 0, 0), LAMBDA r :
        IF r.n = 0 THEN NoConv(s0)
        ELSE [ok |-> TRUE, val |-> IF sg.neg THEN -r.val ELSE r.val,
              rest |-> r.rest]))

\* sscanf(res, "%i#", &v): the return value (conversions assigned) and v.
\* The literal '#' after the conversion cannot change either.
SscanfI(res) ==
    Bind(ScanI(res), LAMBDA c : [rc |-> IF c.ok THEN 1 ELSE 0, v |-> c.val])

\* sscanf(res, "%u#", &v) / sscanf(res, "%d#", &v) for the 0/1 flags.
SscanfD(res) ==
    Bind(ScanD(res), LAMBDA c : [rc |-> IF c.ok THEN 1 ELSE 0, v |-> c.val])

\* sscanf(res, "%d.%d#", &whole, &fract): the second conversion is tried
\* only when the literal '.' matched; unassigned targets keep their 0.
SscanfFixed(res) ==
    Bind(ScanD(res), LAMBDA w :
    Bind(IF w.ok /\ w.rest # <<>> /\ Head(w.rest) = "."
         THEN ScanD(Tail(w.rest)) ELSE NoConv(<<>>), LAMBDA f :
        [rc |-> IF ~w.ok THEN 0 ELSE IF f.ok THEN 2 ELSE 1,
         whole |-> w.val, fract |-> f.val]))

RECURSIVE StrStr(_, _)
\* strstr(s, t) # NULL
StrStr(s, t) ==
    IF Len(s) < Len(t) THEN FALSE
    ELSE IF SubSeq(s, 1, Len(t)) = t THEN TRUE
    ELSE StrStr(Tail(s), t)

\* C integer division truncates toward zero.
CDiv(a, b) == IF a >= 0 THEN a \div b ELSE -((-a) \div b)

Abs(x) == IF x < 0 THEN -x ELSE x

\* ------------------------------------------------------------------------
\* Program constants
\* ------------------------------------------------------------------------

FocusAbsPosN_min == 0

FocusAbsPosN_max == 1000000

FocusSpeedN_default == 200000

AckAttempts == 3

PosThreshold == 5

\* Property states (IPState) and focus directions.
IPS_IDLE == "Idle"

IPS_OK == "Ok"

IPS_BUSY == "Busy"

IPS_ALERT == "Alert"

FOCUS_INWARD == "Inward"

FOCUS_OUTWARD == "Outward"

\* ------------------------------------------------------------------------
\* Commands
\* ------------------------------------------------------------------------

CMD_GV == <<":", "G", "V", "#">>

CMD_GE == <<":", "G", "E", "#">>

CMD_GR == <<":", "G", "R", "#">>

CMD_GT == <<":", "G", "T", "#">>

CMD_GC == <<":", "G", "C", "#">>

CMD_GO == <<":", "G", "O", "#">>

CMD_GP == <<":", "G", "P", "#">>

CMD_GD == <<":", "G", "D", "#">>

CMD_GI == <<":", "G", "I", "#">>

CMD_FG == <<":", "F", "G", "#">>

CMD_FQ == <<":", "F", "Q", "#">>

\* SyncFocuser's snprintf(cmd, ML_RES, ":SP%09i#", ticks)
CmdSync(ticks) == <<":", "S", "P">> \o Fmt09i(ticks) \o <<"#">>

\* MoveFocuser(uint32_t)'s snprintf(cmd, ML_RES, ":SN%09i#", position)
CmdSetTarget(position) == <<":", "S", "N">> \o Fmt09i(position) \o <<"#">>

\* setSpeed's snprintf(cmd, ML_RES, ":SD%i#", speed)
CmdSetSpeed(speed) == <<":", "S", "D">> \o FmtInt(speed) \o <<"#">>

CMD_HO == <<":", "H", "O", "#">>

\* setTemperatureCalibration's snprintf(cmd, ML_RES, ":SO%u#", calibration),
\* for a calibration below 2^31
CmdSetCalibration(calibration) == <<":", "S", "O">> \o FmtInt(calibration) \o <<"#">>

\* setTemperatureCoefficient's snprintf(cmd, ML_RES, ":SC%d#", compensation)
CmdSetCoefficient(compensation) == <<":", "S", "C">> \o FmtInt(compensation) \o <<"#">>

\* ReverseFocuser's snprintf(cmd, ML_RES, ":SR%d#", static_cast<int>(enable))
CmdSetReverse(enable) == <<":", "S", "R">> \o FmtInt(IF enable THEN 1 ELSE 0) \o <<"#">>

\* The one-second pause of Ack, as the command of a trace entry.
SLEEP1 == <<"sleep", "1">>

\* ------------------------------------------------------------------------
\* Transport outcomes of one sendCommand exchange.  An outcome is WERR (the
\* write failed), RERR (the bounded read failed or timed out), or the
\* payload read, up to and including the delimiter.  A command that expects
\* no response has the outcomes WERR and SENT.
\* ------------------------------------------------------------------------

WERR == <<"!write">>

RERR == <<"!read">>

SENT == <<"!sent">>

\* sendCommand(cmd, res, silent, nret): success, the bytes put in res, and
\* the errors logged (none when silent).
sendCommand(wantRes, silent, o) ==
    IF o = WERR
    THEN [ok |-> FALSE, res |-> <<>>,
          log |-> IF silent THEN <<>> ELSE <<"Serial write error">>]
    ELSE IF ~wantRes THEN [ok |-> TRUE, res |-> <<>>, log |-> <<>>]
    ELSE IF o = RERR
    THEN [ok |-> FALSE, res |-> <<>>,
          log |-> IF silent THEN <<>> ELSE <<"Serial read error">>]
    ELSE [ok |-> TRUE, res |-> o, log |-> <<>>]

\* The response buffer's size and the delimiter of a response.
ML_RES == 32

ML_DEL == "#"

\* The nret that readVersion passes to sendCommand: it passes none, and the
\* parameter defaults to 0.
readVersion_nret == 0

RECURSIVE DelimiterAt(_, _)
\* The index of the first delimiter among the bytes from index k on, or 0.
DelimiterAt(bytes, k) ==
    IF k > Len(bytes) THEN 0
    ELSE IF bytes[k] = ML_DEL THEN k
    ELSE DelimiterAt(bytes, k + 1)

\* The read of sendCommand when the device answers with `bytes` and nothing
\* more: with nret = 0 the read runs to the delimiter within ML_RES bytes,
\* with nret > 0 it takes nret bytes; a read that cannot complete fails.
ReadReply(nret, bytes) ==
    IF nret = 0
    THEN Bind(DelimiterAt(bytes, 1), LAMBDA k :
            IF k = 0 \/ k > ML_RES THEN RERR ELSE SubSeq(bytes, 1, k))
    ELSE IF Len(bytes) >= nret THEN SubSeq(bytes, 1, nret) ELSE RERR

\* ------------------------------------------------------------------------
\* Conversions between double and uint32_t
\* ------------------------------------------------------------------------

\* static_cast<uint32_t>(double x) for an integer-valued x.  For x < 0 the
\* conversion is undefined; builds produce either the wrapped value
\* 2^32 + x (held as x) or the saturated value 0.  `ub` names the outcome.
CastU32(x, ub) == IF x >= 0 THEN x ELSE IF ub = "wrap" THEN x ELSE 0

\* |double(u) - x| > k for a held uint32_t u and an integer-valued double x
\* with |x| <= 2^20 and 0 <= k <= 2^20: a u of 2^30 or more is far from x.
U32Far(u) == u < 0 \/ u >= 1073741824

AbsDiffExceeds(u, x, k) == IF U32Far(u) THEN TRUE ELSE Abs(u - x) > k

\* fabs(double(u) - x) >= 0.5 for integer-valued x.
AbsDiffAtLeastHalf(u, x) == IF U32Far(u) THEN TRUE ELSE 2 * Abs(u - x) >= 1

\* ------------------------------------------------------------------------
\* The read operations.  Each takes the driver object's fields `self` and
\* the exchange's outcome, and returns the fields after it, its result and
\* the errors it logged.
\* ------------------------------------------------------------------------

Read(self, ok, log) == [self |-> self, ok |-> ok, log |-> log]

readVersion(o) == sendCommand(TRUE, TRUE, o)

readPosition(self, o) ==
    Bind(sendCommand(TRUE, FALSE, o), LAMBDA x :
    Bind(SscanfI(x.res), LAMBDA sc :
        IF ~x.ok THEN Read(self, FALSE, x.log)
        ELSE IF sc.rc > 0 THEN Read([self EXCEPT !.FocusAbsPosN = sc.v], TRUE, <<>>)
        ELSE Read(self, FALSE, <<"Unknown error: focuser position value">>)))

readSpeed(self, o) ==
    Bind(sendCommand(TRUE, FALSE, o), LAMBDA x :
    Bind(SscanfI(x.res), LAMBDA sc :
        IF ~x.ok THEN Read(self, FALSE, x.log)
        ELSE IF sc.rc > 0 THEN Read([self EXCEPT !.FocusSpeedN = sc.v], TRUE, <<>>)
        ELSE Read(self, FALSE, <<"Unknown error: focuser speed value">>)))

\* Fault injection: the fraction rounded to the nearest whole.
FixedValueRounded(sc) == sc.whole + CDiv(sc.fract + 5, 10)

\* float(wholepart + fractpart / 10), the division an int division.
FixedValue(sc) == sc.whole + CDiv(sc.fract, 10)

readTemperature(self, o) ==
    Bind(sendCommand(TRUE, FALSE, o), LAMBDA x :
    Bind(SscanfFixed(x.res), LAMBDA sc :
        IF ~x.ok THEN Read(self, FALSE, x.log)
        ELSE IF sc.rc > 0
        THEN Read([self EXCEPT !.TemperatureN = FixedValue(sc)], TRUE, <<>>)
        ELSE Read(self, FALSE, <<"Unknown error: focuser temperature value">>)))

readTemperatureCoefficient(self, o) ==
    Bind(sendCommand(TRUE, FALSE, o), LAMBDA x :
    Bind(SscanfFixed(x.res), LAMBDA sc :
        IF ~x.ok THEN Read(self, FALSE, x.log)
        ELSE IF sc.rc > 0
        THEN Read([self EXCEPT !.TemperatureSettingN[2] = FixedValue(sc)], TRUE, <<>>)
        ELSE Read(self, FALSE, <<"Unknown error: focuser temperature value">>)))

readTemperatureCalibration(self, o) ==
    Bind(sendCommand(TRUE, FALSE, o), LAMBDA x :
    Bind(SscanfFixed(x.res), LAMBDA sc :
        IF ~x.ok THEN Read(self, FALSE, x.log)
        ELSE IF sc.rc > 0
        THEN Read([self EXCEPT !.TemperatureSettingN[1] = FixedValue(sc)], TRUE, <<>>)
        ELSE Read(self, FALSE, <<"Unknown error: focuser temperature value">>)))

\* CoilPowerS is the pair of switch states <<COIL_POWER_OFF, COIL_POWER_ON>>
\* (TRUE for ISS_ON); only the switch named by the reply is written.
readCoilPowerState(self, o) ==
    Bind(sendCommand(TRUE, FALSE, o), LAMBDA x :
    Bind(SscanfD(x.res), LAMBDA sc :
        IF ~x.ok THEN Read(self, FALSE, x.log)
        ELSE IF sc.rc > 0 /\ sc.v = 0
        THEN Read([self EXCEPT !.CoilPowerS[1] = TRUE], TRUE, <<>>)
        ELSE IF sc.rc > 0 /\ sc.v = 1
        THEN Read([self EXCEPT !.CoilPowerS[2] = TRUE], TRUE, <<>>)
        ELSE IF sc.rc > 0
        THEN Read(self, FALSE, <<"Invalid Response: focuser Coil Power value">>)
        ELSE Read(self, FALSE, <<"Unknown error: focuser Coil Power value">>)))

\* FocusReverseS is the pair <<INDI_ENABLED, INDI_DISABLED>>.
readReverseDirection(self, o) ==
    Bind(sendCommand(TRUE, FALSE, o), LAMBDA x :
    Bind(SscanfD(x.res), LAMBDA sc :
        IF ~x.ok THEN Read(self, FALSE, x.log)
        ELSE IF sc.rc > 0 /\ sc.v = 0
        THEN Read([self EXCEPT !.FocusReverseS[2] = TRUE], TRUE, <<>>)
        ELSE IF sc.rc > 0 /\ sc.v = 1
        THEN Read([self EXCEPT !.FocusReverseS[1] = TRUE], TRUE, <<>>)
        ELSE IF sc.rc > 0
        THEN Read(self, FALSE, <<"Invalid Response: focuser Reverse direction value">>)
        ELSE Read(self, FALSE, <<"Unknown error: focuser Reverse direction value">>)))

\* isMoving: the value returned, and the errors logged.
isMoving(o) ==
    Bind(sendCommand(TRUE, FALSE, o), LAMBDA x :
        IF ~x.ok THEN [moving |-> FALSE, log |-> x.log]
        ELSE IF StrStr(x.res, <<"1", "#">>) THEN [moving |-> TRUE, log |-> <<>>]
        ELSE IF StrStr(x.res, <<"0", "#">>) THEN [moving |-> FALSE, log |-> <<>>]
        ELSE [moving |-> FALSE, log |-> <<"Unknown error: isMoving value">>])

\* ------------------------------------------------------------------------
\* Handlers.  A handler takes the driver object's fields `self`, its
\* arguments and the outcome of each exchange it may make, and returns
\*   self    the fields after it
\*   ret     its return value
\*   trace   the exchanges it asked of sendCommand, in order (and its pauses)
\*   reports the properties it sent upstream (IDSetNumber / IDSetSwitch)
\*   log     the errors it logged
\*   arm     the number of one-shot timers it armed (IEAddTimer)
\*   rearm   whether it armed the next poll (SetTimer)
\* ------------------------------------------------------------------------

\* One call of sendCommand: the command, whether a response is read (res is
\* not nullptr), and the transport's outcome.
X(cmd, wantRes, o) == [cmd |-> cmd, wantRes |-> wantRes, o |-> o]

Pause == [cmd |-> SLEEP1, wantRes |-> FALSE, o |-> SENT]

Report(prop, value) == [prop |-> prop, value |-> value]

\* The return value of a handler: an IPState, a bool or nothing.
C_TRUE == "true"

C_FALSE == "false"

C_VOID == "void"

Bool(b) == IF b THEN C_TRUE ELSE C_FALSE

Result(self, ret, trace, reports, log, arm, rearm) ==
    [self |-> self, ret |-> ret, trace |-> trace, reports |-> reports,
     log |-> log, arm |-> arm, rearm |-> rearm]

RECURSIVE AckLoopNoBreak(_, _)
\* Fault injection: the loop of Ack without its break.
AckLoopNoBreak(i, outs) ==
    IF i >= AckAttempts THEN [success |-> FALSE, trace |-> <<>>]
    ELSE Bind(AckLoopNoBreak(i + 1, outs), LAMBDA r :
            [success |-> readVersion(outs[i + 1]).ok \/ r.success,
             trace |-> <<X(CMD_GV, TRUE, outs[i + 1])>>
                       \o (IF readVersion(outs[i + 1]).ok THEN <<>> ELSE <<Pause>>)
                       \o r.trace])

RECURSIVE AckLoop(_, _)
\* The for loop of Ack from iteration i on; outs[i + 1] is the outcome of
\* the version query of iteration i.
AckLoop(i, outs) ==
    IF i >= AckAttempts THEN [success |-> FALSE, trace |-> <<>>]
    ELSE IF readVersion(outs[i + 1]).ok
         THEN [success |-> TRUE, trace |-> <<X(CMD_GV, TRUE, outs[i + 1])>>]
         ELSE Bind(AckLoop(i + 1, outs), LAMBDA r :
                [success |-> r.success,
                 trace |-> <<X(CMD_GV, TRUE, outs[i + 1]), Pause>> \o r.trace])

Ack(outs) == AckLoop(0, outs)

Handshake(self, outs) ==
    Bind(Ack(outs), LAMBDA a :
        Result(self, Bool(a.success), a.trace, <<>>, <<>>, 0, FALSE))

\* GetFocusParams; o is the record of the seven exchanges' outcomes.
GetFocusParams(self, o) ==
    Bind(readPosition(self, o.gp), LAMBDA p :
    Bind(readTemperature(p.self, o.gt), LAMBDA t :
    Bind(readSpeed(t.self, o.gd), LAMBDA d :
    Bind(readCoilPowerState(d.self, o.ge), LAMBDA e :
    Bind(readTemperatureCalibration(e.self, o.go), LAMBDA c :
    Bind(readTemperatureCoefficient(c.self, o.gc), LAMBDA k :
    Bind(readReverseDirection(k.self, o.gr), LAMBDA r :
        Result(r.self, C_VOID,
               <<X(CMD_GP, TRUE, o.gp), X(CMD_GT, TRUE, o.gt), X(CMD_GD, TRUE, o.gd),
                 X(CMD_GE, TRUE, o.ge), X(CMD_GO, TRUE, o.go), X(CMD_GC, TRUE, o.gc),
                 X(CMD_GR, TRUE, o.gr)>>,
               (IF p.ok THEN <<Report("FocusAbsPosNP", p.self.FocusAbsPosN)>> ELSE <<>>)
               \o (IF t.ok THEN <<Report("TemperatureNP", t.self.TemperatureN)>> ELSE <<>>)
               \o (IF d.ok THEN <<Report("FocusSpeedNP", d.self.FocusSpeedN)>> ELSE <<>>)
               \o (IF e.ok THEN <<Report("CoilPowerSP", e.self.CoilPowerS)>> ELSE <<>>)
               \o (IF c.ok
                   THEN <<Report("TemperatureSettingNP", c.self.TemperatureSettingN)>>
                   ELSE <<>>)
               \o (IF k.ok
                   THEN <<Report("TemperatureSettingNP", k.self.TemperatureSettingN)>>
                   ELSE <<>>),
               p.log \o t.log \o d.log \o e.log \o c.log \o k.log \o r.log,
               0, FALSE))))))))

\* Fault injection: the motion started whether or not the target was set.
MoveFocuserAlwaysStarts(position, oSN, oFG) ==
    Bind(sendCommand(FALSE, FALSE, oSN), LAMBDA sn :
    Bind(sendCommand(FALSE, FALSE, oFG), LAMBDA fg :
        [ok |-> sn.ok /\ fg.ok,
         trace |-> <<X(CmdSetTarget(position), FALSE, oSN), X(CMD_FG, FALSE, oFG)>>,
         log |-> sn.log \o fg.log]))

\* bool MoveFocuser(uint32_t position): set the target, then start motion.
MoveFocuser(position, oSN, oFG) ==
    Bind(sendCommand(FALSE, FALSE, oSN), LAMBDA sn :
    Bind(sendCommand(FALSE, FALSE, oFG), LAMBDA fg :
        IF ~sn.ok
        THEN [ok |-> FALSE, trace |-> <<X(CmdSetTarget(position), FALSE, oSN)>>,
              log |-> sn.log]
        ELSE [ok |-> fg.ok,
              trace |-> <<X(CmdSetTarget(position), FALSE, oSN),
                          X(CMD_FG, FALSE, oFG)>>,
              log |-> fg.log]))

SyncFocuser(self, ticks, o) ==
    Bind(sendCommand(FALSE, FALSE, o), LAMBDA x :
        Result(self, Bool(x.ok), <<X(CmdSync(ticks), FALSE, o)>>, <<>>, x.log, 0, FALSE))

\* Fault injection: an abort that is sent only while a move is Busy.
AbortFocuserWhenBusy(self, o) ==
    Bind(sendCommand(FALSE, FALSE, o), LAMBDA x :
        IF \/ self.FocusAbsPosNP_s = IPS_BUSY
           \/ self.FocusRelPosNP_s = IPS_BUSY
           \/ self.FocusTimerNP_s = IPS_BUSY
        THEN Result(self, Bool(x.ok), <<X(CMD_FQ, FALSE, o)>>, <<>>, x.log, 0, FALSE)
        ELSE Result(self, C_TRUE, <<>>, <<>>, <<>>, 0, FALSE))

AbortFocuser(self, o) ==
    Bind(sendCommand(FALSE, FALSE, o), LAMBDA x :
        Result(self, Bool(x.ok), <<X(CMD_FQ, FALSE, o)>>, <<>>, x.log, 0, FALSE))

setSpeed(speed, o) ==
    Bind(sendCommand(FALSE, FALSE, o), LAMBDA x :
        [ok |-> x.ok, trace |-> <<X(CmdSetSpeed(speed), FALSE, o)>>, log |-> x.log])

MoveAbsFocuser(self, targetTicks, oSN, oFG) ==
    Bind([self EXCEPT !.targetPos = targetTicks], LAMBDA s1 :
    Bind(MoveFocuser(s1.targetPos, oSN, oFG), LAMBDA m :
        Result(s1, IF m.ok THEN IPS_BUSY ELSE IPS_ALERT, m.trace, <<>>, m.log,
               0, FALSE)))

\* ((dir == FOCUS_INWARD) ? -1 : 1) * static_cast<int32_t>(ticks): the held
\* ticks is already the int32 of the cast.  Negating INT32_MIN overflows,
\* which is undefined: the builds' outcomes are INT32_MIN and INT32_MAX.
RelOffset(dir, ticks, ub) ==
    IF dir # FOCUS_INWARD THEN ticks
    ELSE IF ticks = INT32_MIN
         THEN (IF ub = "wrap" THEN INT32_MIN ELSE INT32_MAX)
         ELSE -ticks

\* int32_t newPosition = FocusAbsPosN[0].value + offset: the sum is a double
\* and its conversion to int32_t is undefined when it is out of range, where
\* builds produce INT32_MIN (the x86 indefinite value) or the saturated
\* value.  cur is an integer-valued double with |cur| <= 2^20.
RelSum(cur, offset, ub) ==
    IF cur > 0 /\ offset > INT32_MAX - cur
    THEN (IF ub = "wrap" THEN INT32_MIN ELSE INT32_MAX)
    ELSE IF cur < 0 /\ offset < INT32_MIN - cur
    THEN INT32_MIN
    ELSE cur + offset

Max(a, b) == IF a >= b THEN a ELSE b

Min(a, b) == IF a <= b THEN a ELSE b

\* The position MoveRelFocuser hands to MoveFocuser.
RelNewPosition(cur, dir, ticks, ub) ==
    Bind(RelOffset(dir, ticks, ub), LAMBDA offset :
    Bind(RelSum(cur, offset, ub), LAMBDA newPosition :
        Max(FocusAbsPosN_min, Min(FocusAbsPosN_max, newPosition))))

MoveRelFocuser(self, dir, ticks, ub, oSN, oFG) ==
    Bind(RelNewPosition(self.FocusAbsPosN, dir, ticks, ub), LAMBDA newPosition :
    Bind(MoveFocuser(newPosition, oSN, oFG), LAMBDA m :
        IF ~m.ok THEN Result(self, IPS_ALERT, m.trace, <<>>, m.log, 0, FALSE)
        ELSE Result([self EXCEPT !.FocusRelPosN = ticks,
                                 !.FocusRelPosNP_s = IPS_BUSY],
                    IPS_BUSY, m.trace, <<>>, m.log, 0, FALSE)))

\* Fault injection: a timed move that arms its timer only when the slew
\* commands were sent.
MoveFocuserTimedArmsOnSuccess(self, dir, speed, duration, oSD, oSN, oFG) ==
    Bind(IF speed # self.FocusSpeedN THEN setSpeed(speed, oSD)
         ELSE [ok |-> TRUE, trace |-> <<>>, log |-> <<>>], LAMBDA sd :
    Bind(MoveFocuser(IF dir = FOCUS_INWARD THEN 0 ELSE self.FocusMaxPosN, oSN, oFG),
         LAMBDA m :
        IF ~sd.ok THEN Result(self, IPS_ALERT, sd.trace, <<>>, sd.log, 0, FALSE)
        ELSE Result(self, IPS_BUSY, sd.trace \o m.trace, <<>>, sd.log \o m.log,
                    IF m.ok THEN 1 ELSE 0, FALSE)))

\* Fault injection: a timed move that goes on after its set-speed command
\* failed.
MoveFocuserTimedIgnoresSpeedFailure(self, dir, speed, duration, oSD, oSN, oFG) ==
    Bind(IF speed # self.FocusSpeedN THEN setSpeed(speed, oSD)
         ELSE [ok |-> TRUE, trace |-> <<>>, log |-> <<>>], LAMBDA sd :
    Bind(MoveFocuser(IF dir = FOCUS_INWARD THEN 0 ELSE self.FocusMaxPosN, oSN, oFG),
         LAMBDA m :
        Result(self, IPS_BUSY, sd.trace \o m.trace, <<>>, sd.log \o m.log, 1, FALSE)))

\* IPState MoveFocuser(FocusDirection dir, int speed, uint16_t duration)
MoveFocuserTimed(self, dir, speed, duration, oSD, oSN, oFG) ==
    Bind(IF speed # self.FocusSpeedN THEN setSpeed(speed, oSD)
         ELSE [ok |-> TRUE, trace |-> <<>>, log |-> <<>>], LAMBDA sd :
    Bind(MoveFocuser(IF dir = FOCUS_INWARD THEN 0 ELSE self.FocusMaxPosN, oSN, oFG),
         LAMBDA m :
        IF ~sd.ok THEN Result(self, IPS_ALERT, sd.trace, <<>>, sd.log, 0, FALSE)
        ELSE Result(self, IPS_BUSY, sd.trace \o m.trace, <<>>, sd.log \o m.log,
                    1, FALSE)))

\* Fault injection: a callback that resets the properties only when the
\* abort was sent.
timedMoveCallbackUnlessAbortFails(self, o) ==
    Bind(AbortFocuser(self, o), LAMBDA a :
    Bind([a.self EXCEPT !.FocusAbsPosNP_s = IPS_IDLE,
                        !.FocusRelPosNP_s = IPS_IDLE,
                        !.FocusTimerNP_s = IPS_IDLE,
                        !.FocusTimerN = 0], LAMBDA s1 :
        IF a.ret = C_FALSE THEN Result(a.self, C_VOID, a.trace, <<>>, a.log, 0, FALSE)
        ELSE Result(s1, C_VOID, a.trace,
                    <<Report("FocusAbsPosNP", s1.FocusAbsPosN),
                      Report("FocusRelPosNP", s1.FocusRelPosN),
                      Report("FocusTimerNP", s1.FocusTimerN)>>, a.log, 0, FALSE)))

timedMoveCallback(self, o) ==
    Bind(AbortFocuser(self, o), LAMBDA a :
    Bind([a.self EXCEPT !.FocusAbsPosNP_s = IPS_IDLE,
                        !.FocusRelPosNP_s = IPS_IDLE,
                        !.FocusTimerNP_s = IPS_IDLE,
                        !.FocusTimerN = 0], LAMBDA s1 :
        Result(s1, C_VOID, a.trace,
               <<Report("FocusAbsPosNP", s1.FocusAbsPosN),
                 Report("FocusRelPosNP", s1.FocusRelPosN),
                 Report("FocusTimerNP", s1.FocusTimerN)>>, a.log, 0, FALSE)))

\* The position part of TimerHit.
PollPosition(self, o, ub) ==
    Bind(readPosition(self, o), LAMBDA p :
        IF p.ok /\ AbsDiffExceeds(p.self.lastPos, p.self.FocusAbsPosN, PosThreshold)
        THEN [self |-> [p.self EXCEPT !.lastPos = CastU32(p.self.FocusAbsPosN, ub)],
              reports |-> <<Report("FocusAbsPosNP", p.self.FocusAbsPosN)>>,
              log |-> p.log]
        ELSE [self |-> p.self, reports |-> <<>>, log |-> p.log])

\* The temperature part of TimerHit.
PollTemperature(self, o, ub) ==
    Bind(readTemperature(self, o), LAMBDA t :
        IF t.ok /\ AbsDiffAtLeastHalf(t.self.lastTemperature, t.self.TemperatureN)
        THEN [self |-> [t.self EXCEPT
                            !.lastTemperature = CastU32(t.self.TemperatureN, ub)],
              reports |-> <<Report("TemperatureNP", t.self.TemperatureN)>>,
              log |-> t.log]
        ELSE [self |-> t.self, reports |-> <<>>, log |-> t.log])

\* Fault injection: a completion check that a Busy timer status also opens.
PollMotionAnyBusy(self, o, ub) ==
    IF \/ self.FocusAbsPosNP_s = IPS_BUSY
       \/ self.FocusRelPosNP_s = IPS_BUSY
       \/ self.FocusTimerNP_s = IPS_BUSY
    THEN Bind(isMoving(o), LAMBDA im :
            IF ~im.moving
            THEN [self |-> [self EXCEPT !.FocusAbsPosNP_s = IPS_OK,
                                        !.FocusRelPosNP_s = IPS_OK,
                                        !.lastPos = CastU32(self.FocusAbsPosN, ub)],
                  trace |-> <<X(CMD_GI, TRUE, o)>>,
                  reports |-> <<Report("FocusAbsPosNP", self.FocusAbsPosN),
                                Report("FocusRelPosNP", self.FocusRelPosN)>>,
                  log |-> im.log]
            ELSE [self |-> self, trace |-> <<X(CMD_GI, TRUE, o)>>, reports |-> <<>>,
                  log |-> im.log])
    ELSE [self |-> self, trace |-> <<>>, reports |-> <<>>, log |-> <<>>]

\* The completion part of TimerHit.
PollMotion(self, o, ub) ==
    IF self.FocusAbsPosNP_s = IPS_BUSY \/ self.FocusRelPosNP_s = IPS_BUSY
    THEN Bind(isMoving(o), LAMBDA im :
            IF ~im.moving
            THEN [self |-> [self EXCEPT !.FocusAbsPosNP_s = IPS_OK,
                                        !.FocusRelPosNP_s = IPS_OK,
                                        !.lastPos = CastU32(self.FocusAbsPosN, ub)],
                  trace |-> <<X(CMD_GI, TRUE, o)>>,
                  reports |-> <<Report("FocusAbsPosNP", self.FocusAbsPosN),
                                Report("FocusRelPosNP", self.FocusRelPosN)>>,
                  log |-> im.log]
            ELSE [self |-> self, trace |-> <<X(CMD_GI, TRUE, o)>>, reports |-> <<>>,
                  log |-> im.log])
    ELSE [self |-> self, trace |-> <<>>, reports |-> <<>>, log |-> <<>>]

\* Fault injection: a poll that arms the next one only when no read failed.
TimerHitRearmsOnSuccess(self, isConnected, o, ub) ==
    IF ~isConnected THEN Result(self, C_VOID, <<>>, <<>>, <<>>, 0, FALSE)
    ELSE Bind(PollPosition(self, o.gp, ub), LAMBDA p :
         Bind(PollTemperature(p.self, o.gt, ub), LAMBDA t :
         Bind(PollMotion(t.self, o.gi, ub), LAMBDA m :
            Result(m.self, C_VOID,
                   <<X(CMD_GP, TRUE, o.gp), X(CMD_GT, TRUE, o.gt)>> \o m.trace,
                   p.reports \o t.reports \o m.reports,
                   p.log \o t.log \o m.log, 0,
                   p.log \o t.log \o m.log = <<>>))))

TimerHit(self, isConnected, o, ub) ==
    IF ~isConnected THEN Result(self, C_VOID, <<>>, <<>>, <<>>, 0, FALSE)
    ELSE Bind(PollPosition(self, o.gp, ub), LAMBDA p :
         Bind(PollTemperature(p.self, o.gt, ub), LAMBDA t :
         Bind(PollMotion(t.self, o.gi, ub), LAMBDA m :
            Result(m.self, C_VOID,
                   <<X(CMD_GP, TRUE, o.gp), X(CMD_GT, TRUE, o.gt)>> \o m.trace,
                   p.reports \o t.reports \o m.reports,
                   p.log \o t.log \o m.log, 0, TRUE))))

\* bool setGotoHome(): the abort is sent, its result ignored, when the
\* device reports that it moves.
setGotoHome(oGI, oFQ, oHO) ==
    Bind(isMoving(oGI), LAMBDA im :
    Bind(sendCommand(FALSE, FALSE, oFQ), LAMBDA fq :
    Bind(sendCommand(FALSE, FALSE, oHO), LAMBDA ho :
        [ok |-> ho.ok,
         trace |-> <<X(CMD_GI, TRUE, oGI)>>
                   \o (IF im.moving THEN <<X(CMD_FQ, FALSE, oFQ)>> ELSE <<>>)
                   \o <<X(CMD_HO, FALSE, oHO)>>,
         log |-> im.log \o (IF im.moving THEN fq.log ELSE <<>>) \o ho.log])))

\* ISNewSwitch for the Home switch.
NewSwitchGotoHome(self, oGI, oFQ, oHO) ==
    Bind(setGotoHome(oGI, oFQ, oHO), LAMBDA h :
        IF ~h.ok
        THEN Result([self EXCEPT !.GotoHomeS = FALSE, !.CoilPowerSP_s = IPS_ALERT],
                    C_FALSE, h.trace, <<Report("GotoHomeSP", FALSE)>>, h.log, 0, FALSE)
        ELSE Result([self EXCEPT !.GotoHomeSP_s = IPS_OK],
                    C_TRUE, h.trace, <<Report("GotoHomeSP", self.GotoHomeS)>>, h.log,
                    0, FALSE))

\* setCoilPowerState's snprintf(cmd, ML_RES, ":SE%d#", enable)
CmdSetCoilPower(enable) == <<":", "S", "E">> \o FmtInt(enable) \o <<"#">>

\* IUFindOnSwitchIndex on the pair <<COIL_POWER_OFF, COIL_POWER_ON>>: the
\* place in the pair of the first switch that is on, 0 when none is (the
\* enumerator is the place less one).
FindOnSwitch(switches) ==
    IF switches[1] THEN 1 ELSE IF switches[2] THEN 2 ELSE 0

\* The pair with the switch at place k on and the other off.
OnlySwitch(k) == [i \in 1..2 |-> i = k]

\* ISNewSwitch for the coil power switches, the client asking for the
\* switch at place `target` alone: IUUpdateSwitch selects it, the new mode
\* is sent, and on failure the switches are reset and the one found on
\* before the update is selected again.
NewSwitchCoilPower(self, target, oSE) ==
    Bind(FindOnSwitch(self.CoilPowerS), LAMBDA current_mode :
    Bind(FindOnSwitch(OnlySwitch(target)), LAMBDA target_mode :
    Bind(sendCommand(FALSE, FALSE, oSE), LAMBDA se :
        IF ~se.ok
        THEN Result([self EXCEPT !.CoilPowerS = OnlySwitch(current_mode),
                                 !.CoilPowerSP_s = IPS_ALERT],
                    C_FALSE, <<X(CmdSetCoilPower(target_mode - 1), FALSE, oSE)>>,
                    (IF current_mode = target_mode
                     THEN <<Report("CoilPowerSP", OnlySwitch(target))>> ELSE <<>>)
                    \o <<Report("CoilPowerSP", OnlySwitch(current_mode))>>,
                    se.log, 0, FALSE)
        ELSE Result([self EXCEPT !.CoilPowerS = OnlySwitch(target),
                                 !.CoilPowerSP_s = IPS_OK],
                    C_TRUE, <<X(CmdSetCoilPower(target_mode - 1), FALSE, oSE)>>,
                    (IF current_mode = target_mode
                     THEN <<Report("CoilPowerSP", OnlySwitch(target))>> ELSE <<>>)
                    \o <<Report("CoilPowerSP", OnlySwitch(target))>>,
                    <<>>, 0, FALSE))))

\* ISNewNumber for the temperature settings, the new values not negative:
\* the coefficient is sent only when the calibration was.
NewNumberTemperatureSetting(self, calibration, coefficient, oSO, oSC) ==
    Bind([self EXCEPT !.TemperatureSettingN = <<calibration, coefficient>>], LAMBDA s1 :
    Bind(sendCommand(FALSE, FALSE, oSO), LAMBDA so :
    Bind(sendCommand(FALSE, FALSE, oSC), LAMBDA sc :
        IF ~so.ok
        THEN Result([s1 EXCEPT !.TemperatureSettingNP_s = IPS_ALERT], C_FALSE,
                    <<X(CmdSetCalibration(calibration), FALSE, oSO)>>,
                    <<Report("TemperatureSettingNP", s1.TemperatureSettingN)>>,
                    so.log, 0, FALSE)
        ELSE IF ~sc.ok
        THEN Result([s1 EXCEPT !.TemperatureSettingNP_s = IPS_ALERT], C_FALSE,
                    <<X(CmdSetCalibration(calibration), FALSE, oSO),
                      X(CmdSetCoefficient(coefficient), FALSE, oSC)>>,
                    <<Report("TemperatureSettingNP", s1.TemperatureSettingN)>>,
                    sc.log, 0, FALSE)
        ELSE Result([s1 EXCEPT !.TemperatureSettingNP_s = IPS_OK], C_TRUE,
                    <<X(CmdSetCalibration(calibration), FALSE, oSO),
                      X(CmdSetCoefficient(coefficient), FALSE, oSC)>>,
                    <<Report("TemperatureSettingNP", s1.TemperatureSettingN)>>,
                    <<>>, 0, FALSE))))

SetFocuserSpeed(self, speed, o) ==
    Bind(setSpeed(speed, o), LAMBDA x :
        Result(self, Bool(x.ok), x.trace, <<>>, x.log, 0, FALSE))

ReverseFocuser(self, enable, o) ==
    Bind(sendCommand(FALSE, FALSE, o), LAMBDA x :
        Result(self, Bool(x.ok), <<X(CmdSetReverse(enable), FALSE, o)>>, <<>>, x.log,
               0, FALSE))

\* The property layer stores a motion handler's return value as the state
\* of the property the request came through.
ReturnedTo(prop, r) == [r EXCEPT !.self[prop] = r.ret]

\* ------------------------------------------------------------------------
\* Inputs: what the device answers and what the client asks.  A profile
\* names the set each input of the handlers is drawn from.
\* ------------------------------------------------------------------------

MaxTimers == 2

MaxActive == 2

WriteOutcomes == {SENT, WERR}

Directions == {FOCUS_INWARD, FOCUS_OUTWARD}

UBChoices == {"wrap", "saturate"}

\* The device's reply to a position or speed query: the value as nine zero
\* padded decimal digits and the delimiter.
Padded(n) == Fmt09i(n) \o <<"#">>

\* A reply without padding.
Plain(n) == FmtInt(n) \o <<"#">>

R_0 == <<"0", "#">>

R_1 == <<"1", "#">>

R_21_5 == <<"2", "1", ".", "5", "#">>

R_M5_3 == <<"-", "5", ".", "3", "#">>

R_2_5 == <<"2", ".", "5", "#">>

R_VERSION == <<"1", "0", "#">>

R_01 == <<"0", "1", "#">>

R_11 == <<"1", "1", "#">>

R_21 == <<"2", "1", "#">>

R_10 == <<"1", "0", "#">>

R_EMPTY == <<"#">>

\* uint32_t values of 2^31 and more, as held: 2^31, 3000000000, 2^32 - 1.
U32_2147483648 == INT32_MIN

U32_3000000000 == -1294967296

U32_4294967295 == -1

\* The whole driver: every request, each write failing or not.
MainProfile ==
    [gv |-> {R_VERSION, RERR},
     gp |-> {Plain(8)},
     gt |-> {R_21_5},
     gd |-> {Plain(FocusSpeedN_default)},
     ge |-> {R_1},
     gr |-> {R_0},
     gx |-> {R_2_5},
     gi |-> {R_0, R_1},
     w  |-> WriteOutcomes,
     ub |-> {"wrap"},
     dirs |-> Directions,
     targets |-> {42},
     ticks |-> {50},
     speeds |-> {FocusSpeedN_default, 1000},
     durations |-> {2000},
     sync |-> {42}]

\* ------------------------------------------------------------------------
\* State
\* ------------------------------------------------------------------------

VARIABLES
    self,        \* the driver object's fields
    connection,  \* "off", "shaken" (Handshake succeeded, parameters not yet read), "on"
    timers,      \* the armed one-shot timers of timed moves
    pollTimer,   \* whether the poll timer is armed
    last,        \* the handler that returned last: its call, return value, trace,
                 \* reports, and what the client had been told when it was called
    upstream,    \* what the client was last told: position, polled temperature
    active       \* the handlers dispatched and not yet returned, innermost last

vars == <<self, connection, timers, pollTimer, last, upstream, active>>

InitSelf ==
    [FocusAbsPosN |-> 0, FocusAbsPosNP_s |-> IPS_IDLE,
     FocusRelPosN |-> 0, FocusRelPosNP_s |-> IPS_IDLE,
     FocusTimerN |-> 0, FocusTimerNP_s |-> IPS_IDLE,
     FocusSpeedN |-> FocusSpeedN_default,
     FocusMaxPosN |-> FocusAbsPosN_max,
     TemperatureN |-> 0,
     TemperatureSettingN |-> <<0, 0>>, TemperatureSettingNP_s |-> IPS_IDLE,
     GotoHomeS |-> FALSE, GotoHomeSP_s |-> IPS_IDLE,
     CoilPowerSP_s |-> IPS_IDLE,
     CoilPowerS |-> <<FALSE, TRUE>>,
     FocusReverseS |-> <<FALSE, TRUE>>,
     targetPos |-> 0, lastPos |-> 0, lastTemperature |-> 0]

NothingTold == [posSent |-> FALSE, pos |-> 0, tempPolled |-> FALSE, temp |-> 0]

NoCall == [op |-> "none", arg |-> [none |-> TRUE], ret |-> C_VOID, trace |-> <<>>,
           reports |-> <<>>, log |-> <<>>, arm |-> 0, rearm |-> FALSE,
           told |-> NothingTold]

Init ==
    /\ self = InitSelf
    /\ connection = "off"
    /\ timers = {}
    /\ pollTimer = FALSE
    /\ last = NoCall
    /\ upstream = NothingTold
    /\ active = <<>>

\* ------------------------------------------------------------------------
\* Calls: a handler applied to the current fields with chosen inputs.  Each
\* set holds the calls the event loop can make of one handler in the
\* current state.
\* ------------------------------------------------------------------------

Call(op, arg, r) == [op |-> op, arg |-> arg, r |-> r]

\* The outcomes a write can have: none but failure once the port is closed.
Writes(W) == IF connection = "on" THEN W ELSE {WERR}

HandshakeCalls(P) ==
    IF connection # "off" THEN {}
    ELSE {Call("Handshake", [outs |-> outs], Handshake(self, outs)) :
            outs \in [1..AckAttempts -> P.gv]}

\* updateProperties on connection: the parameters are read.
GetFocusParamsCalls(P) ==
    IF connection # "shaken" THEN {}
    ELSE {Call("GetFocusParams", o, GetFocusParams(self, o)) :
            o \in [gp : P.gp, gt : P.gt, gd : P.gd, ge : P.ge, go : P.gx, gc : P.gx,
                   gr : P.gr]}

DisconnectCalls(P) ==
    IF connection # "on" THEN {}
    ELSE {Call("Disconnect", [none |-> TRUE], Result(self, C_VOID, <<>>, <<>>, <<>>, 0, FALSE))}

TimerHitCalls(P) ==
    IF ~pollTimer \/ connection = "shaken" THEN {}
    ELSE IF connection = "on"
    THEN {Call("TimerHit", a, TimerHit(self, TRUE, a, a.ub)) :
            a \in [gp : P.gp, gt : P.gt, gi : P.gi, ub : P.ub]}
    ELSE {Call("TimerHit", a, TimerHit(self, FALSE, a, a.ub)) :
            a \in [gp : {WERR}, gt : {WERR}, gi : {WERR}, ub : {"wrap"}]}

MoveAbsCalls(P) ==
    IF connection # "on" THEN {}
    ELSE {Call("MoveAbsFocuser", a,
               ReturnedTo("FocusAbsPosNP_s",
                          MoveAbsFocuser(self, a.target, a.oSN, a.oFG))) :
            a \in [target : P.targets, oSN : P.w, oFG : P.w]}

MoveRelCalls(P) ==
    IF connection # "on" THEN {}
    ELSE {Call("MoveRelFocuser", a,
               ReturnedTo("FocusRelPosNP_s",
                          MoveRelFocuser(self, a.dir, a.ticks, a.ub, a.oSN, a.oFG))) :
            a \in [dir : P.dirs, ticks : P.ticks, ub : P.ub, oSN : P.w, oFG : P.w]}

\* The property layer stores the requested duration in FocusTimerN before
\* it calls the handler.
MoveTimedCalls(P) ==
    IF connection # "on" \/ Cardinality(timers) >= MaxTimers THEN {}
    ELSE {Call("MoveFocuser", a,
               ReturnedTo("FocusTimerNP_s",
                          MoveFocuserTimed([self EXCEPT !.FocusTimerN = a.duration],
                                           a.dir, a.speed, a.duration,
                                           a.oSD, a.oSN, a.oFG))) :
            a \in [dir : P.dirs, speed : P.speeds, duration : P.durations,
                   oSD : P.w, oSN : P.w, oFG : P.w]}

AbortCalls(P) ==
    IF connection # "on" THEN {}
    ELSE {Call("AbortFocuser", [o |-> o], AbortFocuser(self, o)) : o \in P.w}

SyncCalls(P) ==
    IF connection # "on" THEN {}
    ELSE {Call("SyncFocuser", a, SyncFocuser(self, a.ticks, a.o)) :
            a \in [ticks : P.sync, o : P.w]}

GotoHomeCalls(P) ==
    IF connection # "on" THEN {}
    ELSE {Call("GotoHome", a, NewSwitchGotoHome(self, a.oGI, a.oFQ, a.oHO)) :
            a \in [oGI : P.gi, oFQ : P.w, oHO : P.w]}

TemperatureSettingCalls(P) ==
    IF connection # "on" THEN {}
    ELSE {Call("TemperatureSetting", a,
               NewNumberTemperatureSetting(self, a.calibration, a.coefficient,
                                           a.oSO, a.oSC)) :
            a \in [calibration : P.settings, coefficient : P.settings,
                   oSO : P.w, oSC : P.w]}

SetSpeedCalls(P) ==
    IF connection # "on" THEN {}
    ELSE {Call("SetFocuserSpeed", a, SetFocuserSpeed(self, a.speed, a.o)) :
            a \in [speed : P.speeds, o : P.w]}

ReverseCalls(P) ==
    IF connection # "on" THEN {}
    ELSE {Call("ReverseFocuser", a, ReverseFocuser(self, a.enable, a.o)) :
            a \in [enable : BOOLEAN, o : P.w]}

\* The timer `id` of a timed move fires: timedMoveHelper calls
\* timedMoveCallback.
TimedCallbackCalls(P, id) ==
    IF id \notin timers \/ connection = "shaken" THEN {}
    ELSE {Call("timedMoveCallback", [o |-> o, timer |-> id], timedMoveCallback(self, o)) :
            o \in Writes(P.w)}

\* ------------------------------------------------------------------------
\* Committing a call: the handler has returned
\* ------------------------------------------------------------------------

PositionReports(reports) == SelectSeq(reports, LAMBDA x : x.prop = "FocusAbsPosNP")

TemperatureReports(reports) == SelectSeq(reports, LAMBDA x : x.prop = "TemperatureNP")

\* What the client has been told once the call's reports are sent.
Told(c) ==
    Bind(PositionReports(c.r.reports), LAMBDA pr :
    Bind(TemperatureReports(c.r.reports), LAMBDA tr :
        [posSent |-> upstream.posSent \/ pr # <<>>,
         pos |-> IF pr # <<>> THEN pr[Len(pr)].value ELSE upstream.pos,
         tempPolled |-> upstream.tempPolled \/ (c.op = "TimerHit" /\ tr # <<>>),
         temp |-> IF c.op = "TimerHit" /\ tr # <<>> THEN tr[Len(tr)].value
                  ELSE upstream.temp]))

FreeSlots == (1..MaxTimers) \ timers

\* IEAddTimer: n new timers beside those armed (n is 0 or 1).
Armed(n) == IF n = 0 \/ FreeSlots = {} THEN timers
            ELSE timers \cup {CHOOSE i \in FreeSlots : \A j \in FreeSlots : i <= j}

\* The event loop takes the event of the call: a one-shot timer that fires
\* is no longer armed.
Taken(c) ==
    /\ timers' = IF c.op = "timedMoveCallback" THEN timers \ {c.arg.timer} ELSE timers
    /\ pollTimer' = IF c.op = "TimerHit" THEN FALSE ELSE pollTimer

\* The handler of the call returns.
Commit(c) ==
    /\ self' = c.r.self
    /\ last' = [op |-> c.op, arg |-> c.arg, ret |-> c.r.ret, trace |-> c.r.trace,
                reports |-> c.r.reports, log |-> c.r.log, arm |-> c.r.arm,
                rearm |-> c.r.rearm, told |-> upstream]
    /\ upstream' = Told(c)
    /\ connection' = IF c.op = "Handshake" THEN (IF c.r.ret = C_TRUE THEN "shaken" ELSE "off")
                     ELSE IF c.op = "GetFocusParams" THEN "on"
                     ELSE IF c.op = "Disconnect" THEN "off"
                     ELSE connection

\* The timers the handler of the call leaves armed.
Rearmed(c) ==
    /\ timers' = IF c.op = "timedMoveCallback" THEN timers \ {c.arg.timer}
                 ELSE Armed(c.r.arm)
    /\ pollTimer' = IF c.op = "GetFocusParams" THEN TRUE
                    ELSE IF c.op = "TimerHit" THEN c.r.rearm
                    ELSE pollTimer

\* A handler runs from its dispatch to its return.
Returned(c) == Commit(c) /\ Rearmed(c) /\ UNCHANGED active

\* ------------------------------------------------------------------------
\* Actions, each a handler run as one step.  P is the profile the inputs
\* are drawn from.
\* ------------------------------------------------------------------------

DoHandshake(P) == \E c \in HandshakeCalls(P) : Returned(c)

DoUpdateProperties(P) == \E c \in GetFocusParamsCalls(P) : Returned(c)

DoDisconnect(P) == \E c \in DisconnectCalls(P) : Returned(c)

DoTimerHit(P) == \E c \in TimerHitCalls(P) : Returned(c)

DoMoveAbs(P) == \E c \in MoveAbsCalls(P) : Returned(c)

DoMoveRel(P) == \E c \in MoveRelCalls(P) : Returned(c)

DoMoveTimed(P) == \E c \in MoveTimedCalls(P) : Returned(c)

DoAbort(P) == \E c \in AbortCalls(P) : Returned(c)

DoSync(P) == \E c \in SyncCalls(P) : Returned(c)

DoTimedMoveCallback(P, id) == \E c \in TimedCallbackCalls(P, id) : Returned(c)

Next ==
    \/ DoHandshake(MainProfile)
    \/ DoUpdateProperties(MainProfile)
    \/ DoDisconnect(MainProfile)
    \/ DoTimerHit(MainProfile)
    \/ DoMoveAbs(MainProfile)
    \/ DoMoveRel(MainProfile)
    \/ DoMoveTimed(MainProfile)
    \/ DoAbort(MainProfile)
    \/ DoSync(MainProfile)
    \/ \E id \in 1..MaxTimers : DoTimedMoveCallback(MainProfile, id)

Spec == Init /\ [][Next]_vars

\* ------------------------------------------------------------------------
\* Timed moves under a fair event loop.  A connection sequence that has
\* begun goes on to read the parameters (weak fairness: nothing else runs
\* until it has).  An armed timer is fired when the loop is next idle after
\* its expiry; the loop is busy only for the length of a handler, so the
\* callback of a timer that stays armed cannot be passed over for ever
\* (strong fairness: it is disabled only while a connection sequence runs).
\* ------------------------------------------------------------------------

TimedProfile ==
    [gv |-> {R_VERSION},
     gp |-> {Plain(8), RERR},
     gt |-> {R_21_5},
     gd |-> {Plain(FocusSpeedN_default)},
     ge |-> {R_1},
     gr |-> {R_0},
     gx |-> {R_2_5},
     gi |-> {R_0, R_1, RERR},
     w  |-> WriteOutcomes,
     ub |-> {"wrap"},
     dirs |-> Directions,
     targets |-> {42},
     speeds |-> {FocusSpeedN_default},
     durations |-> {2000}]

FairNext ==
    \/ DoHandshake(TimedProfile)
    \/ DoUpdateProperties(TimedProfile)
    \/ DoDisconnect(TimedProfile)
    \/ DoTimerHit(TimedProfile)
    \/ DoMoveAbs(TimedProfile)
    \/ DoMoveTimed(TimedProfile)
    \/ \E id \in 1..MaxTimers : DoTimedMoveCallback(TimedProfile, id)

FairSpec ==
    /\ Init
    /\ [][FairNext]_vars
    /\ WF_vars(DoUpdateProperties(TimedProfile))
    /\ \A id \in 1..MaxTimers : SF_vars(DoTimedMoveCallback(TimedProfile, id))

\* ------------------------------------------------------------------------
\* Polling: positions and temperatures that change between polls,
\* temperatures below zero, reads that fail, moves that complete.
\* ------------------------------------------------------------------------

PollProfile ==
    [gv |-> {R_VERSION},
     gp |-> {Plain(3), Plain(8), RERR},
     gt |-> {R_21_5, R_M5_3, RERR},
     gd |-> {Plain(FocusSpeedN_default)},
     ge |-> {R_1},
     gr |-> {R_0},
     gx |-> {R_2_5},
     gi |-> {R_0, R_1},
     w  |-> {SENT},
     ub |-> UBChoices,
     targets |-> {42}]

PollNext ==
    \/ DoHandshake(PollProfile)
    \/ DoUpdateProperties(PollProfile)
    \/ DoDisconnect(PollProfile)
    \/ DoTimerHit(PollProfile)
    \/ DoMoveAbs(PollProfile)

PollSpec == Init /\ [][PollNext]_vars

\* ------------------------------------------------------------------------
\* Relative moves from positions over the whole range by tick counts over
\* the whole of uint32_t.
\* ------------------------------------------------------------------------

RelProfile ==
    [gv |-> {R_VERSION},
     gp |-> {Plain(0), Plain(10), Plain(999990), Plain(FocusAbsPosN_max)},
     gt |-> {R_21_5},
     gd |-> {Plain(FocusSpeedN_default)},
     ge |-> {R_1},
     gr |-> {R_0},
     gx |-> {R_2_5},
     gi |-> {R_1},
     w  |-> {SENT},
     ub |-> UBChoices,
     dirs |-> Directions,
     ticks |-> {0, 50, FocusAbsPosN_max, INT32_MAX,
                U32_2147483648, U32_3000000000, U32_4294967295}]

RelNext ==
    \/ DoHandshake(RelProfile)
    \/ DoUpdateProperties(RelProfile)
    \/ DoTimerHit(RelProfile)
    \/ DoMoveRel(RelProfile)

RelSpec == Init /\ [][RelNext]_vars

\* ------------------------------------------------------------------------
\* The commands that carry a position: every move and Sync, over targets
\* from one end of the range to the other.
\* ------------------------------------------------------------------------

MoveProfile ==
    [gv |-> {R_VERSION},
     gp |-> {Plain(10)},
     gt |-> {R_21_5},
     gd |-> {Plain(FocusSpeedN_default)},
     ge |-> {R_1},
     gr |-> {R_0},
     gx |-> {R_2_5},
     w  |-> WriteOutcomes,
     ub |-> {"wrap"},
     dirs |-> Directions,
     targets |-> {0, 42, FocusAbsPosN_max, FocusAbsPosN_max + 1},
     ticks |-> {50},
     speeds |-> {FocusSpeedN_default},
     durations |-> {2000},
     sync |-> {0, 42, 999999999}]

MoveNext ==
    \/ DoHandshake(MoveProfile)
    \/ DoUpdateProperties(MoveProfile)
    \/ DoMoveAbs(MoveProfile)
    \/ DoMoveRel(MoveProfile)
    \/ DoMoveTimed(MoveProfile)
    \/ DoSync(MoveProfile)
    \/ \E id \in 1..MaxTimers : DoTimedMoveCallback(MoveProfile, id)

MoveSpec == Init /\ [][MoveNext]_vars

\* ------------------------------------------------------------------------
\* Reads of a device that answers position and speed queries with nine zero
\* padded digits, and the is-moving query with any short payload.
\* ------------------------------------------------------------------------

ReadProfile ==
    [gv |-> {R_VERSION},
     gp |-> {Padded(0), Padded(7), Padded(8), Padded(123), Padded(FocusAbsPosN_max)},
     gt |-> {R_21_5},
     gd |-> {Padded(FocusSpeedN_default), Padded(9)},
     ge |-> {R_1},
     gr |-> {R_0},
     gx |-> {R_2_5},
     gi |-> {R_1, R_01, R_0, R_11, R_21, R_10, R_EMPTY},
     w  |-> {SENT},
     ub |-> {"wrap"},
     targets |-> {42}]

ReadNext ==
    \/ DoHandshake(ReadProfile)
    \/ DoUpdateProperties(ReadProfile)
    \/ DoDisconnect(ReadProfile)
    \/ DoTimerHit(ReadProfile)
    \/ DoMoveAbs(ReadProfile)

ReadSpec == Init /\ [][ReadNext]_vars

\* ------------------------------------------------------------------------
\* The event loop and the command engine, step by step.  A handler that is
\* dispatched runs its exchanges one after the other, each exchange through
\* the steps of sendCommand, and returns.  The handlers dispatched and not
\* yet returned form a stack: a handler dispatched while another waits runs
\* to its return before the other goes on.
\* ------------------------------------------------------------------------

EngineProfile ==
    [gv |-> {R_VERSION, RERR, WERR},
     gp |-> {Plain(8)},
     gt |-> {R_21_5},
     gd |-> {Plain(FocusSpeedN_default)},
     ge |-> {R_1},
     gr |-> {R_0},
     gx |-> {R_2_5},
     gi |-> {R_0, R_1},
     w  |-> {SENT},
     ub |-> {"wrap"},
     dirs |-> {FOCUS_OUTWARD},
     targets |-> {42},
     ticks |-> {50},
     speeds |-> {1000},
     durations |-> {2000},
     sync |-> {42},
     settings |-> {2}]

\* Fault injection: a sendCommand that waits for the response in the event
\* loop.
YieldsWhileReading(phase) == phase = "written"

\* Whether sendCommand, having reached `phase`, hands control back to the
\* event loop before it returns: it never does, every call it makes blocks.
Yields(phase) == FALSE

\* The event loop dispatches the next event when no handler is running.
CanDispatch == \A i \in 1..Len(active) : Yields(active[i].phase)

Activation(c) == [c |-> c, left |-> c.r.trace, phase |-> "idle"]

Top == active[Len(active)]

\* The top handler goes on to `phase`, or with the exchange returned.
Goes(phase) == active' = [active EXCEPT ![Len(active)].phase = phase]

ExchangeReturns ==
    active' = [active EXCEPT ![Len(active)].phase = "idle",
                             ![Len(active)].left = Tail(Top.left)]

Dispatch(calls) ==
    /\ CanDispatch
    /\ Len(active) < MaxActive
    /\ \E c \in calls :
        /\ active' = Append(active, Activation(c))
        /\ Taken(c)
    /\ UNCHANGED <<self, connection, last, upstream>>

\* The handler calls sendCommand, which flushes the port.
EnterSendCommand ==
    /\ active # <<>>
    /\ Top.phase = "idle"
    /\ Top.left # <<>>
    /\ Head(Top.left) # Pause
    /\ Goes("flushed")
    /\ UNCHANGED <<self, connection, timers, pollTimer, last, upstream>>

\* Ack sleeps.
Sleep ==
    /\ active # <<>>
    /\ Top.phase = "idle"
    /\ Top.left # <<>>
    /\ Head(Top.left) = Pause
    /\ ExchangeReturns
    /\ UNCHANGED <<self, connection, timers, pollTimer, last, upstream>>

\* Fault injection: a sendCommand that goes on after a failed write.
AfterWriteIgnoresFailure(x) == "written"

\* Where sendCommand stands after tty_write_string: it returns false when
\* the write failed.
AfterWrite(x) == IF x.o = WERR THEN "return" ELSE "written"

\* Where sendCommand stands after its read: it returns false when the read
\* failed.
AfterRead(x) == IF x.o = RERR THEN "return" ELSE "read"

\* tty_write_string.
WriteCommand ==
    /\ active # <<>>
    /\ Top.phase = "flushed"
    /\ IF AfterWrite(Head(Top.left)) = "return"
       THEN ExchangeReturns
       ELSE Goes(AfterWrite(Head(Top.left)))
    /\ UNCHANGED <<self, connection, timers, pollTimer, last, upstream>>

\* No response is read (res is nullptr): tcdrain, and sendCommand returns
\* true.
DrainOutput ==
    /\ active # <<>>
    /\ Top.phase = "written"
    /\ ~Head(Top.left).wantRes
    /\ ExchangeReturns
    /\ UNCHANGED <<self, connection, timers, pollTimer, last, upstream>>

\* tty_nread_section; on failure sendCommand returns.
ReadResponse ==
    /\ active # <<>>
    /\ Top.phase = "written"
    /\ Head(Top.left).wantRes
    /\ IF AfterRead(Head(Top.left)) = "return"
       THEN ExchangeReturns
       ELSE Goes(AfterRead(Head(Top.left)))
    /\ UNCHANGED <<self, connection, timers, pollTimer, last, upstream>>

\* The second flush, and sendCommand returns.
LeaveSendCommand ==
    /\ active # <<>>
    /\ Top.phase = "read"
    /\ ExchangeReturns
    /\ UNCHANGED <<self, connection, timers, pollTimer, last, upstream>>

\* The handler returns to the event loop.
HandlerReturns ==
    /\ active # <<>>
    /\ Top.phase = "idle"
    /\ Top.left = <<>>
    /\ Commit(Top.c)
    /\ Rearmed(Top.c)
    /\ active' = SubSeq(active, 1, Len(active) - 1)

EngineNext ==
    \/ Dispatch(HandshakeCalls(EngineProfile))
    \/ Dispatch(GetFocusParamsCalls(EngineProfile))
    \/ Dispatch(TimerHitCalls(EngineProfile))
    \/ Dispatch(MoveAbsCalls(EngineProfile))
    \/ Dispatch(MoveRelCalls(EngineProfile))
    \/ Dispatch(MoveTimedCalls(EngineProfile))
    \/ Dispatch(AbortCalls(EngineProfile))
    \/ Dispatch(SyncCalls(EngineProfile))
    \/ Dispatch(GotoHomeCalls(EngineProfile))
    \/ Dispatch(TemperatureSettingCalls(EngineProfile))
    \/ Dispatch(SetSpeedCalls(EngineProfile))
    \/ Dispatch(ReverseCalls(EngineProfile))
    \/ \E id \in 1..MaxTimers : Dispatch(TimedCallbackCalls(EngineProfile, id))
    \/ EnterSendCommand
    \/ Sleep
    \/ WriteCommand
    \/ DrainOutput
    \/ ReadResponse
    \/ LeaveSendCommand
    \/ HandlerReturns

EngineSpec == Init /\ [][EngineNext]_vars

\* ------------------------------------------------------------------------
\* Reads of a device whose replies are well formed or not: fixed-point
\* replies "<w>.<f>#" over several wholes and fractions, and replies that
\* end early or carry a character that is no digit.
\* ------------------------------------------------------------------------

\* The device's fixed-point reply for the whole part w and the fraction f.
FixedReply(w, f) == FmtInt(w) \o <<".">> \o FmtInt(f) \o <<"#">>

FixedWholes == {0, 3, 21, -5}

FixedFractions == {0, 5, 9, 25, 50}

R_21_DOT == <<"2", "1", ".", "#">>

R_21_DOT_X == <<"2", "1", ".", "x", "#">>

R_X == <<"x", "#">>

R_12X == <<"1", "2", "x", "#">>

FixedProfile ==
    [gv |-> {R_VERSION},
     gp |-> {Plain(12), R_12X},
     gt |-> {FixedReply(21, 5), FixedReply(-5, 3), FixedReply(0, 9), FixedReply(21, 50),
             R_21, R_21_DOT, R_21_DOT_X, R_X},
     gd |-> {Plain(FocusSpeedN_default)},
     ge |-> {R_1},
     gr |-> {R_0},
     gx |-> {FixedReply(3, 25), FixedReply(21, 5), R_X},
     gi |-> {R_0},
     w  |-> {SENT},
     ub |-> {"wrap"}]

FixedNext ==
    \/ DoHandshake(FixedProfile)
    \/ DoUpdateProperties(FixedProfile)
    \/ DoTimerHit(FixedProfile)

FixedSpec == Init /\ [][FixedNext]_vars

\* ------------------------------------------------------------------------
\* Connecting to a device by what it puts on the wire in answer to the
\* version query: a version with the delimiter, one without, or nothing.
\* ------------------------------------------------------------------------

W_VERSION == <<"1", "0">>

W_NOTHING == <<>>

WireProfile ==
    [gvWire |-> {R_VERSION, W_VERSION, W_NOTHING},
     gp |-> {Plain(8), RERR},
     gt |-> {R_21_5},
     gd |-> {Plain(FocusSpeedN_default)},
     ge |-> {R_1},
     gr |-> {R_0},
     gx |-> {R_2_5},
     gi |-> {R_0},
     w  |-> {SENT},
     ub |-> {"wrap"}]

\* Handshake with each version query answered by the bytes wire[i].
WireHandshakeCalls(P) ==
    IF connection # "off" THEN {}
    ELSE {Call("Handshake",
               [outs |-> [i \in 1..AckAttempts |-> ReadReply(readVersion_nret, wire[i])],
                wire |-> wire],
               Handshake(self, [i \in 1..AckAttempts |->
                                    ReadReply(readVersion_nret, wire[i])])) :
            wire \in [1..AckAttempts -> P.gvWire]}

DoWireHandshake(P) == \E c \in WireHandshakeCalls(P) : Returned(c)

WireNext ==
    \/ DoWireHandshake(WireProfile)
    \/ DoUpdateProperties(WireProfile)
    \/ DoDisconnect(WireProfile)
    \/ DoTimerHit(WireProfile)

WireSpec == Init /\ [][WireNext]_vars

\* ------------------------------------------------------------------------
\* Poll ticks during moves of the three kinds: the is-moving query may fail
\* or be answered by a payload that says neither yes nor no.
\* ------------------------------------------------------------------------

TickProfile ==
    [gv |-> {R_VERSION},
     gp |-> {Plain(8), RERR},
     gt |-> {R_21_5, RERR},
     gd |-> {Plain(FocusSpeedN_default)},
     ge |-> {R_1},
     gr |-> {R_0},
     gx |-> {R_2_5},
     gi |-> {R_0, R_1, R_EMPTY, RERR},
     w  |-> {SENT},
     ub |-> {"wrap"},
     dirs |-> {FOCUS_OUTWARD},
     targets |-> {42},
     ticks |-> {50},
     speeds |-> {FocusSpeedN_default},
     durations |-> {2000}]

TickNext ==
    \/ DoHandshake(TickProfile)
    \/ DoUpdateProperties(TickProfile)
    \/ DoDisconnect(TickProfile)
    \/ DoTimerHit(TickProfile)
    \/ DoMoveAbs(TickProfile)
    \/ DoMoveRel(TickProfile)
    \/ DoMoveTimed(TickProfile)
    \/ \E id \in 1..MaxTimers : DoTimedMoveCallback(TickProfile, id)

TickSpec == Init /\ [][TickNext]_vars

\* ------------------------------------------------------------------------
\* Polling under a fair event loop: the poll timer, once armed, fires when
\* its period has passed, so a tick that stays possible is taken (weak
\* fairness).  Every exchange of a tick may fail.
\* ------------------------------------------------------------------------

PollFairProfile ==
    [gv |-> {R_VERSION},
     gp |-> {Plain(8), RERR},
     gt |-> {R_21_5, RERR},
     gd |-> {Plain(FocusSpeedN_default)},
     ge |-> {R_1},
     gr |-> {R_0},
     gx |-> {R_2_5},
     gi |-> {R_1, RERR},
     w  |-> {SENT},
     ub |-> {"wrap"},
     targets |-> {42}]

PollFairNext ==
    \/ DoHandshake(PollFairProfile)
    \/ DoUpdateProperties(PollFairProfile)
    \/ DoDisconnect(PollFairProfile)
    \/ DoTimerHit(PollFairProfile)
    \/ DoMoveAbs(PollFairProfile)

PollFairSpec ==
    /\ Init
    /\ [][PollFairNext]_vars
    /\ WF_vars(DoTimerHit(PollFairProfile))

\* ------------------------------------------------------------------------
\* The Home switch, pressed while the device moves or not, each write
\* failing or not.
\* ------------------------------------------------------------------------

HomeProfile ==
    [gv |-> {R_VERSION},
     gp |-> {Plain(8)},
     gt |-> {R_21_5},
     gd |-> {Plain(FocusSpeedN_default)},
     ge |-> {R_1},
     gr |-> {R_0},
     gx |-> {R_2_5},
     gi |-> {R_0, R_1, RERR},
     w  |-> WriteOutcomes,
     ub |-> {"wrap"},
     targets |-> {42}]

DoGotoHome(P) == \E c \in GotoHomeCalls(P) : Returned(c)

HomeNext ==
    \/ DoHandshake(HomeProfile)
    \/ DoUpdateProperties(HomeProfile)
    \/ DoDisconnect(HomeProfile)
    \/ DoTimerHit(HomeProfile)
    \/ DoMoveAbs(HomeProfile)
    \/ DoGotoHome(HomeProfile)

HomeSpec == Init /\ [][HomeNext]_vars

\* ------------------------------------------------------------------------
\* The coil power switches: the state read at each connection from a
\* device that answers 0, 1, another number, no number or nothing, and the
\* client selecting either switch, the command sent or not.
\* ------------------------------------------------------------------------

R_2 == <<"2", "#">>

CoilProfile ==
    [gv |-> {R_VERSION},
     gp |-> {Plain(8)},
     gt |-> {R_21_5},
     gd |-> {Plain(FocusSpeedN_default)},
     ge |-> {R_0, R_1, R_2, R_X, RERR},
     gr |-> {R_0},
     gx |-> {R_2_5},
     gi |-> {R_0},
     w  |-> WriteOutcomes,
     ub |-> {"wrap"}]

CoilPowerCalls(P) ==
    IF connection # "on" THEN {}
    ELSE {Call("CoilPower", a, NewSwitchCoilPower(self, a.target, a.oSE)) :
            a \in [target : 1..2, oSE : P.w]}

DoCoilPower(P) == \E c \in CoilPowerCalls(P) : Returned(c)

CoilNext ==
    \/ DoHandshake(CoilProfile)
    \/ DoUpdateProperties(CoilProfile)
    \/ DoDisconnect(CoilProfile)
    \/ DoTimerHit(CoilProfile)
    \/ DoCoilPower(CoilProfile)

CoilSpec == Init /\ [][CoilNext]_vars

\* ------------------------------------------------------------------------
\* Properties
\* ------------------------------------------------------------------------

\* The exchanges of a trace that sent `cmd`.
Sent(trace, cmd) == SelectSeq(trace, LAMBDA x : x.cmd = cmd)

\* Whether an exchange that reads a response got one.
Succeeded(x) == x.o # WERR /\ x.o # RERR

\* C2: every timed move that returns Busy arms exactly one timer; a timer
\* leaves the armed set only by firing, its firing sends :FQ# exactly once,
\* and under a fair event loop every armed timer fires.
C2_TimedMoveTimer ==
    /\ [][(last'.op = "MoveFocuser" /\ last'.ret = IPS_BUSY)
            => Cardinality(timers') = Cardinality(timers) + 1]_vars
    /\ [][\A id \in timers \ timers' :
            /\ last'.op = "timedMoveCallback"
            /\ last'.arg.timer = id
            /\ timers' = timers \ {id}
            /\ Len(Sent(last'.trace, CMD_FQ)) = 1]_vars
    /\ \A id \in 1..MaxTimers : (id \in timers) ~> (id \notin timers)

\* C2 witness: a timer fired and sent :FQ# after the connection was closed
\* and a poll had failed to read the position, another timer still armed.
C2_Witness ==
    /\ last.op = "timedMoveCallback"
    /\ Len(Sent(last.trace, CMD_FQ)) = 1
    /\ self.FocusAbsPosNP_s = IPS_IDLE
    /\ Cardinality(timers) = 1

\* C3 as stated: after the timer callback the three statuses are Idle and
\* both FocusRelPosN and FocusTimerN are zero.
C3_Original ==
    last.op = "timedMoveCallback" =>
        /\ self.FocusAbsPosNP_s = IPS_IDLE
        /\ self.FocusRelPosNP_s = IPS_IDLE
        /\ self.FocusTimerNP_s = IPS_IDLE
        /\ self.FocusRelPosN = 0
        /\ self.FocusTimerN = 0

\* C3 (amended): the timer callback leaves the three statuses Idle and
\* FocusTimerN zero, whether or not the abort was sent, and leaves
\* FocusRelPosN as it was.
C3_CallbackResets ==
    [][last'.op = "timedMoveCallback" =>
            /\ self'.FocusAbsPosNP_s = IPS_IDLE
            /\ self'.FocusRelPosNP_s = IPS_IDLE
            /\ self'.FocusTimerNP_s = IPS_IDLE
            /\ self'.FocusTimerN = 0
            /\ self'.FocusRelPosN = self.FocusRelPosN]_vars

\* C3 witness: the callback has returned with the abort not sent and a
\* relative magnitude of 50 still reported.
C3_Witness ==
    /\ last.op = "timedMoveCallback"
    /\ last.arg.o = WERR
    /\ self.FocusRelPosN = 50
    /\ self.FocusTimerNP_s = IPS_IDLE

\* C4: Handshake queries the version at most 3 times, never again after an
\* attempt that succeeded, returns true exactly when an attempt succeeded
\* (false exactly when 3 attempts failed), and pauses after a failed attempt.
C4_HandshakeRetries ==
    last.op = "Handshake" =>
        /\ Len(Sent(last.trace, CMD_GV)) \in 1..3
        /\ \A i \in 1..Len(last.trace) :
            \/ last.trace[i].cmd = CMD_GV /\ last.trace[i].wantRes
            \/ last.trace[i] = Pause
        /\ \A i \in 1..(Len(last.trace) - 1) :
            last.trace[i].cmd = CMD_GV =>
                ~Succeeded(last.trace[i]) /\ last.trace[i + 1] = Pause
        /\ last.ret \in {C_TRUE, C_FALSE}
        /\ last.ret = C_TRUE <=> (\E i \in 1..Len(last.trace) :
                                    last.trace[i].cmd = CMD_GV /\ Succeeded(last.trace[i]))
        /\ last.ret = C_FALSE => Len(Sent(last.trace, CMD_GV)) = 3

\* C4 witness: Handshake succeeded on its third attempt.
C4_Witness ==
    /\ last.op = "Handshake"
    /\ last.ret = C_TRUE
    /\ Len(Sent(last.trace, CMD_GV)) = 3

\* The value that nine decimal digits denote.
DecimalValue(ds) ==
    ds[1] * 100000000 + ds[2] * 10000000 + ds[3] * 1000000 + ds[4] * 100000
    + ds[5] * 10000 + ds[6] * 1000 + ds[7] * 100 + ds[8] * 10 + ds[9]

\* A command is `prefix`, nine decimal digits that denote `value`, and '#'.
NineDigitCommand(cmd, prefix, value) ==
    /\ Len(cmd) = 13
    /\ SubSeq(cmd, 1, 3) = prefix
    /\ \A i \in 4..12 : cmd[i] \in DigitChars
    /\ DecimalValue([i \in 1..9 |-> DigitVal(cmd[i + 3])]) = value
    /\ cmd[13] = "#"

\* The exchanges of a trace that set a position on the device: the
\* commands :SN (new target) and :SP (current position).
PositionCommands(trace) ==
    SelectSeq(trace, LAMBDA x : Len(x.cmd) >= 3 /\ x.cmd[1] = ":" /\ x.cmd[2] = "S"
                                /\ x.cmd[3] \in {"N", "P"})

\* clamp(current + sign(dir) * ticks, min, max) for a held uint32_t ticks,
\* computed without leaving 32 bits: a ticks of 2^31 or more, held below
\* zero, carries the sum past either end of the range.
ClampedSum(current, dir, ticks) ==
    IF dir = FOCUS_INWARD
    THEN (IF ticks < 0 \/ ticks >= current - FocusAbsPosN_min
          THEN FocusAbsPosN_min ELSE current - ticks)
    ELSE (IF ticks < 0 \/ ticks >= FocusAbsPosN_max - current
          THEN FocusAbsPosN_max ELSE current + ticks)

\* C5 as stated: the position a relative move commands is
\* clamp(current + sign(dir) * ticks, min, max), for every current position
\* in [min, max] and every uint32_t ticks.
C5_Claim ==
    (/\ last.op = "MoveRelFocuser"
     /\ self.FocusAbsPosN \in FocusAbsPosN_min..FocusAbsPosN_max) =>
        /\ Len(last.trace) >= 1
        /\ last.trace[1].cmd =
               CmdSetTarget(ClampedSum(self.FocusAbsPosN, last.arg.dir, last.arg.ticks))

\* C6 as stated: every command that sets a position, a move's as well as
\* Sync's, is ":SP", nine zero padded digits and "#".
C6_Original ==
    \A i \in 1..Len(PositionCommands(last.trace)) :
        /\ Len(PositionCommands(last.trace)[i].cmd) = 13
        /\ SubSeq(PositionCommands(last.trace)[i].cmd, 1, 3) = <<":", "S", "P">>
        /\ \A k \in 4..12 : PositionCommands(last.trace)[i].cmd[k] \in DigitChars
        /\ PositionCommands(last.trace)[i].cmd[13] = "#"

\* C6 (amended): a move sets its target with ":SN" and Sync sets the current
\* position with ":SP", each followed by the position as exactly nine zero
\* padded decimal digits and "#".
C6_PositionCommands ==
    /\ \A i \in 1..Len(PositionCommands(last.trace)) :
        \E d \in {"N", "P"} :
            /\ d = "P" <=> last.op = "SyncFocuser"
            /\ Len(PositionCommands(last.trace)[i].cmd) = 13
            /\ SubSeq(PositionCommands(last.trace)[i].cmd, 1, 3) = <<":", "S", d>>
            /\ \A k \in 4..12 : PositionCommands(last.trace)[i].cmd[k] \in DigitChars
            /\ PositionCommands(last.trace)[i].cmd[13] = "#"
    /\ last.op = "SyncFocuser" =>
        /\ Len(last.trace) = 1
        /\ NineDigitCommand(last.trace[1].cmd, <<":", "S", "P">>, last.arg.ticks)
    /\ last.op = "MoveAbsFocuser" =>
        NineDigitCommand(last.trace[1].cmd, <<":", "S", "N">>, last.arg.target)
    /\ last.op = "MoveRelFocuser" =>
        NineDigitCommand(last.trace[1].cmd, <<":", "S", "N">>,
                         ClampedSum(self.FocusAbsPosN, last.arg.dir, last.arg.ticks))
    /\ (last.op = "MoveFocuser" /\ last.ret = IPS_BUSY) =>
        /\ Len(PositionCommands(last.trace)) = 1
        /\ NineDigitCommand(PositionCommands(last.trace)[1].cmd, <<":", "S", "N">>,
                            IF last.arg.dir = FOCUS_INWARD THEN 0 ELSE FocusAbsPosN_max)

\* C6 witness: an absolute move to 42 has sent ":SN000000042#" and then
\* the start of motion.
C6_Witness ==
    /\ last.op = "MoveAbsFocuser"
    /\ last.arg.target = 42
    /\ Len(last.trace) = 2
    /\ last.trace[1].cmd = <<":", "S", "N", "0", "0", "0", "0", "0", "0", "0", "4", "2", "#">>

\* Whether a reply is nine decimal digits and the delimiter.
NineDigitReply(res) ==
    /\ Len(res) = 10
    /\ \A i \in 1..9 : res[i] \in DigitChars
    /\ res[10] = "#"

\* The position or speed a nine digit reply renders.
ReplyValue(res) == DecimalValue([i \in 1..9 |-> DigitVal(res[i])])

\* C7 as stated: when the device answers :GP# with a position of
\* [0, max] as nine zero padded digits and '#', readPosition stores that
\* position; readSpeed likewise with the answer to :GD#.
C7_Claim ==
    /\ (/\ last.op \in {"GetFocusParams", "TimerHit"}
        /\ Len(last.trace) >= 1
        /\ NineDigitReply(last.arg.gp)
        /\ ReplyValue(last.arg.gp) \in 0..FocusAbsPosN_max) =>
            self.FocusAbsPosN = ReplyValue(last.arg.gp)
    /\ (/\ last.op = "GetFocusParams"
        /\ NineDigitReply(last.arg.gd)) =>
            self.FocusSpeedN = ReplyValue(last.arg.gd)

\* Whether the poll that returned last found the motion complete, which it
\* does when its call of isMoving returns false.
PollFoundStopped == \E i \in 1..Len(last.reports) : last.reports[i].prop = "FocusRelPosNP"

\* C8 as stated: isMoving returns true exactly for the payloads "1#" and
\* "01#", false without error for "0#", and false with a logged error for
\* every other payload read.
C8_Claim ==
    (/\ last.op = "TimerHit"
     /\ Len(Sent(last.trace, CMD_GI)) = 1
     /\ Succeeded(Sent(last.trace, CMD_GI)[1])) =>
        /\ ~PollFoundStopped <=> last.arg.gi \in {R_1, R_01}
        /\ last.arg.gi = R_0 => last.log = <<>>
        /\ last.arg.gi \notin {R_1, R_01, R_0} =>
            last.log = <<"Unknown error: isMoving value">>

\* C9 as stated: a poll reports the temperature exactly when it differs by
\* 0.5 or more from the temperature of the previous poll report.
C9_Claim ==
    (/\ last.op = "TimerHit"
     /\ Len(last.trace) >= 2
     /\ Succeeded(last.trace[2])
     /\ last.told.tempPolled) =>
        (TemperatureReports(last.reports) # <<>>
            <=> 2 * Abs(self.TemperatureN - last.told.temp) >= 1)

\* C10 as stated: a poll in which no move completes reports the position
\* exactly when it differs by more than 5 from the position last sent
\* upstream by any report.
C10_Claim ==
    (/\ last.op = "TimerHit"
     /\ Len(last.trace) >= 1
     /\ Succeeded(last.trace[1])
     /\ ~PollFoundStopped
     /\ last.told.posSent) =>
        (PositionReports(last.reports) # <<>>
            <=> Abs(self.FocusAbsPosN - last.told.pos) > 5)

\* The exchanges in flight: sendCommand entered and not yet returned.
InFlight == {i \in 1..Len(active) : active[i].phase \in {"flushed", "written", "read"}}

\* C1: at most one command is in flight: no handler enters sendCommand
\* while an exchange that began earlier has not returned.
C1_OneCommandInFlight ==
    /\ Cardinality(InFlight) <= 1
    /\ \A i \in 1..Len(active) : i < Len(active) => active[i].phase = "idle"

\* C1 witness: the callback of a timed move's timer has written :FQ# and
\* sendCommand has not yet returned.
C1_Witness ==
    /\ Len(active) = 1
    /\ Top.c.op = "timedMoveCallback"
    /\ Top.phase = "flushed"
    /\ Head(Top.left).cmd = CMD_FQ
    /\ pollTimer

\* C11: a reply "<w>.<f>#" to :GT#, :GO# or :GC# stores w + (f div 10), the
\* division truncating: the temperature, the calibration and the
\* coefficient lose every single-digit fraction ("21.5#" stores 21).
C11_FixedPointDecode ==
    \A w \in FixedWholes : \A f \in FixedFractions :
        /\ (/\ last.op \in {"GetFocusParams", "TimerHit"}
            /\ Len(last.trace) >= 2
            /\ last.arg.gt = FixedReply(w, f)) =>
                self.TemperatureN = w + (f \div 10)
        /\ (last.op = "GetFocusParams" /\ last.arg.go = FixedReply(w, f)) =>
                self.TemperatureSettingN[1] = w + (f \div 10)
        /\ (last.op = "GetFocusParams" /\ last.arg.gc = FixedReply(w, f)) =>
                self.TemperatureSettingN[2] = w + (f \div 10)

\* C11 witness: the parameters were read from a device that answered :GT#
\* with "21.5#", :GO# with "3.25#" and :GC# with "21.5#".
C11_Witness ==
    /\ last.op = "GetFocusParams"
    /\ last.arg.gt = R_21_5
    /\ last.arg.go = <<"3", ".", "2", "5", "#">>
    /\ last.arg.gc = R_21_5
    /\ self.TemperatureN = 21
    /\ self.TemperatureSettingN = <<5, 21>>

\* Whether s is one or more decimal digits.
IsDigits(s) == s # <<>> /\ \A i \in 1..Len(s) : s[i] \in DigitChars

\* Whether a reply is "<digits>#", a leading sign allowed.
DigitsGrammar(res) ==
    /\ Len(res) >= 2
    /\ res[Len(res)] = "#"
    /\ IsDigits(SubSeq(res, IF res[1] = "-" THEN 2 ELSE 1, Len(res) - 1))

\* Whether a reply is "<digits>.<digits>#", a leading sign allowed.
FixedGrammar(res) ==
    /\ Len(res) >= 4
    /\ res[Len(res)] = "#"
    /\ \E k \in 2..(Len(res) - 2) :
        /\ res[k] = "."
        /\ IsDigits(SubSeq(res, IF res[1] = "-" THEN 2 ELSE 1, k - 1))
        /\ IsDigits(SubSeq(res, k + 1, Len(res) - 1))

\* C13 as stated: a poll that reads a position reply that is not
\* "<digits>#" logs the failed read and leaves the position as it was, and
\* one that reads a temperature reply that is not "<digits>.<digits>#" logs
\* the failed read and leaves the temperature as it was.
C13_Claim ==
    [][(last'.op = "TimerHit" /\ Len(last'.trace) >= 2) =>
        /\ ~DigitsGrammar(last'.arg.gp) =>
            /\ self'.FocusAbsPosN = self.FocusAbsPosN
            /\ \E i \in 1..Len(last'.log) :
                last'.log[i] = "Unknown error: focuser position value"
        /\ ~FixedGrammar(last'.arg.gt) =>
            /\ self'.TemperatureN = self.TemperatureN
            /\ \E i \in 1..Len(last'.log) :
                last'.log[i] = "Unknown error: focuser temperature value"]_vars

\* C12 as stated: the answer to :GV# is read by count, so that a device
\* which answers the first version query with a version string that holds
\* no '#' has its version read: Handshake succeeds on that attempt.
C12_Claim ==
    (/\ last.op = "Handshake"
     /\ last.arg.wire[1] # <<>>
     /\ DelimiterAt(last.arg.wire[1], 1) = 0) =>
        /\ last.ret = C_TRUE
        /\ Len(last.trace) = 1

\* C14: MoveAbsFocuser(target) sends the set-target command for the target
\* as given, unclamped, and then :FG#; :FG# is sent only when the set-target
\* command was sent; it returns Busy exactly when both were sent and Alert
\* when either failed.
C14_MoveAbs ==
    last.op = "MoveAbsFocuser" =>
        /\ Len(last.trace) \in {1, 2}
        /\ NineDigitCommand(last.trace[1].cmd, <<":", "S", "N">>, last.arg.target)
        /\ ~last.trace[1].wantRes
        /\ last.trace[1].o = last.arg.oSN
        /\ Len(last.trace) = 2 <=> last.arg.oSN = SENT
        /\ Len(last.trace) = 2 =>
            /\ last.trace[2].cmd = CMD_FG
            /\ ~last.trace[2].wantRes
            /\ last.trace[2].o = last.arg.oFG
        /\ last.ret \in {IPS_BUSY, IPS_ALERT}
        /\ last.ret = IPS_BUSY <=> (last.arg.oSN = SENT /\ last.arg.oFG = SENT)
        /\ self.targetPos = last.arg.target

\* C14 witness: an absolute move to a target past the maximum position has
\* sent the target as given and :FG#, and returned Busy.
C14_Witness ==
    /\ last.op = "MoveAbsFocuser"
    /\ last.arg.target = FocusAbsPosN_max + 1
    /\ Len(last.trace) = 2
    /\ last.trace[1].cmd = <<":", "S", "N", "0", "0", "1", "0", "0", "0", "0", "0", "1", "#">>
    /\ last.ret = IPS_BUSY

\* Whether the absolute or the relative status is Busy in fields s.
MoveBusy(s) == s.FocusAbsPosNP_s = IPS_BUSY \/ s.FocusRelPosNP_s = IPS_BUSY

\* C15 as stated: a poll tick that finds the absolute or relative status
\* Busy sends :GI# exactly once, and those statuses leave Busy in the tick
\* exactly when the device answers that it does not move ("0#"): a :GI#
\* exchange that fails, or a payload that says neither, leaves them Busy.
C15_Claim ==
    [][(last'.op = "TimerHit" /\ connection = "on" /\ MoveBusy(self)) =>
        /\ Len(Sent(last'.trace, CMD_GI)) = 1
        /\ ~MoveBusy(self') <=> last'.arg.gi = R_0]_vars

\* C17: a poll tick taken while connected arms the next poll before it
\* returns, whichever of its exchanges failed, so that the poll timer is
\* armed whenever the driver is connected and, the event loop being fair,
\* another tick always follows; a tick that finds the driver disconnected
\* sends nothing, changes nothing and arms nothing.
C17_PollRearms ==
    /\ [][last'.op = "TimerHit" =>
            IF connection = "on"
            THEN /\ last'.rearm
                 /\ pollTimer'
                 /\ Len(last'.trace) >= 2
            ELSE /\ last'.trace = <<>>
                 /\ last'.reports = <<>>
                 /\ self' = self
                 /\ upstream' = upstream
                 /\ timers' = timers
                 /\ ~last'.rearm
                 /\ ~pollTimer']_vars
    /\ [](connection = "on" => pollTimer)
    /\ (connection = "on" /\ last.op # "TimerHit")
            ~> (connection # "on" \/ last.op = "TimerHit")

\* C17 witness: a tick in which the position, the temperature and the
\* is-moving exchange all failed has returned with the next poll armed.
C17_Witness ==
    /\ last.op = "TimerHit"
    /\ connection = "on"
    /\ Len(last.trace) = 3
    /\ \A i \in 1..3 : last.trace[i].o = RERR
    /\ last.rearm
    /\ pollTimer

\* C19 as stated: a poll tick that finds any of the three motion statuses
\* Busy, the timer status of a timed move included, sends :GI#, and no
\* status is Busy after it when the device answers that it does not move.
C19_Original ==
    [][(/\ last'.op = "TimerHit"
        /\ connection = "on"
        /\ \/ MoveBusy(self)
           \/ self.FocusTimerNP_s = IPS_BUSY) =>
            /\ Len(Sent(last'.trace, CMD_GI)) = 1
            /\ last'.arg.gi = R_0 =>
                /\ ~MoveBusy(self')
                /\ self'.FocusTimerNP_s # IPS_BUSY]_vars

\* C19 (amended): a poll tick sends :GI#, once and after its two reads,
\* exactly when it finds the absolute or the relative status Busy, and sets
\* both to Ok when the device answers that it does not move; it never
\* looks at the timer status nor changes it, so a timed move whose only
\* Busy status is the timer's is not re-checked and stays Busy.
C19_PollReconciles ==
    [][(last'.op = "TimerHit" /\ connection = "on") =>
        /\ self'.FocusTimerNP_s = self.FocusTimerNP_s
        /\ IF MoveBusy(self)
           THEN /\ Len(Sent(last'.trace, CMD_GI)) = 1
                /\ Len(last'.trace) = 3
                /\ last'.trace[3].cmd = CMD_GI
                /\ last'.arg.gi = R_0 =>
                    /\ self'.FocusAbsPosNP_s = IPS_OK
                    /\ self'.FocusRelPosNP_s = IPS_OK
           ELSE /\ Sent(last'.trace, CMD_GI) = <<>>
                /\ self'.FocusAbsPosNP_s = self.FocusAbsPosNP_s
                /\ self'.FocusRelPosNP_s = self.FocusRelPosNP_s]_vars

\* C19 witness: a tick taken during a timed move, the timer status the only
\* Busy one, has sent its two reads and no :GI#, the timer status Busy still.
C19_Witness ==
    /\ last.op = "TimerHit"
    /\ Len(last.trace) = 2
    /\ self.FocusTimerNP_s = IPS_BUSY
    /\ ~MoveBusy(self)
    /\ timers # {}

\* C16: a timed move sends :SD<speed># first exactly when the requested
\* speed differs from the stored speed; when that command fails it returns
\* Alert, sends nothing more and arms no timer; otherwise it sets the
\* target 0 (inward) or the maximum position (outward), starts the motion
\* when the target was set, arms one timer and returns Busy.
C16_TimedMoveSpeed ==
    [][last'.op = "MoveFocuser" =>
        /\ Len(last'.trace) >= 1
        /\ (last'.trace[1].cmd = CmdSetSpeed(last'.arg.speed)
                <=> last'.arg.speed # self.FocusSpeedN)
        /\ Len(Sent(last'.trace, CmdSetSpeed(last'.arg.speed)))
                = (IF last'.arg.speed # self.FocusSpeedN THEN 1 ELSE 0)
        /\ IF last'.arg.speed # self.FocusSpeedN /\ last'.arg.oSD = WERR
           THEN /\ last'.ret = IPS_ALERT
                /\ Len(last'.trace) = 1
                /\ PositionCommands(last'.trace) = <<>>
                /\ Sent(last'.trace, CMD_FG) = <<>>
                /\ last'.arm = 0
                /\ timers' = timers
           ELSE /\ last'.ret = IPS_BUSY
                /\ Len(PositionCommands(last'.trace)) = 1
                /\ NineDigitCommand(PositionCommands(last'.trace)[1].cmd,
                                    <<":", "S", "N">>,
                                    IF last'.arg.dir = FOCUS_INWARD THEN 0
                                    ELSE self.FocusMaxPosN)
                /\ last'.trace[Len(last'.trace)].cmd = CMD_FG
                        <=> last'.arg.oSN = SENT
                /\ last'.arm = 1
                /\ Cardinality(timers') = Cardinality(timers) + 1]_vars

\* C16 witness: a timed move at a speed other than the stored one could not
\* send its set-speed command: Alert, one exchange, no timer.
C16_Witness ==
    /\ last.op = "MoveFocuser"
    /\ last.arg.speed = 1000
    /\ self.FocusSpeedN = FocusSpeedN_default
    /\ last.arg.oSD = WERR
    /\ last.ret = IPS_ALERT
    /\ Len(last.trace) = 1
    /\ timers = {}

\* The states of the properties other than the Home switch's.
OtherStatuses(s) ==
    <<s.FocusAbsPosNP_s, s.FocusRelPosNP_s, s.FocusTimerNP_s,
      s.TemperatureSettingNP_s, s.CoilPowerSP_s>>

\* C18 as stated: GotoHome sends :FQ# before :HO# when the device answers
\* that it moves and :HO# alone otherwise; when :HO# fails the Home
\* property's status becomes Alert, its switch is reset, and the status of
\* no other property changes.
C18_Claim ==
    [][last'.op = "GotoHome" =>
        /\ Len(Sent(last'.trace, CMD_HO)) = 1
        /\ last'.trace[Len(last'.trace)].cmd = CMD_HO
        /\ Len(Sent(last'.trace, CMD_FQ)) = (IF last'.arg.oGI = R_1 THEN 1 ELSE 0)
        /\ last'.arg.oHO = WERR =>
            /\ self'.GotoHomeSP_s = IPS_ALERT
            /\ ~self'.GotoHomeS
            /\ OtherStatuses(self') = OtherStatuses(self)]_vars

\* A step of the running handler inside sendCommand.
ExchangeStep ==
    /\ active # <<>>
    /\ Len(active') = Len(active)
    /\ active' # active
    /\ Head(Top.left) # Pause

\* The running handler's call of sendCommand has returned.
ExchangeReturned == Top'.phase = "idle" /\ Top'.left = Tail(Top.left)

\* The running handler's call of sendCommand has gone on to `phase`.
ExchangeAt(phase) == Top'.phase = phase /\ Top'.left = Top.left

\* C20: every exchange of sendCommand flushes the port, then writes; a
\* failed write returns false and nothing is read; when no response is
\* expected the output is drained and true returned without a read; else
\* one read follows, a failed read returns false, and a read that
\* succeeded is followed by the second flush and the return of true.
C20_SendCommandOrder ==
    [][ExchangeStep =>
        /\ Top.phase = "idle" => ExchangeAt("flushed")
        /\ Top.phase = "flushed" =>
            IF Head(Top.left).o = WERR
            THEN /\ ExchangeReturned
                 /\ ~sendCommand(Head(Top.left).wantRes, FALSE, Head(Top.left).o).ok
            ELSE ExchangeAt("written")
        /\ Top.phase = "written" =>
            IF ~Head(Top.left).wantRes
            THEN /\ ExchangeReturned
                 /\ sendCommand(FALSE, FALSE, Head(Top.left).o).ok
            ELSE IF Head(Top.left).o = RERR
            THEN /\ ExchangeReturned
                 /\ ~sendCommand(TRUE, FALSE, Head(Top.left).o).ok
            ELSE ExchangeAt("read")
        /\ Top.phase = "read" =>
            /\ Head(Top.left).wantRes
            /\ ExchangeReturned
            /\ sendCommand(TRUE, FALSE, Head(Top.left).o).ok
        /\ Top.phase \in {"idle", "flushed", "written", "read"}]_vars

\* C20 witness: a poll tick has read the answer to :GT# and sendCommand has
\* its second flush still to do, a timed move's timer armed.
C20_Witness ==
    /\ Len(active) = 1
    /\ Top.c.op = "TimerHit"
    /\ Top.phase = "read"
    /\ Head(Top.left).cmd = CMD_GT
    /\ timers # {}

\* C21: AbortFocuser, whatever the statuses are, sends :FQ# and nothing
\* else, returns whether the command was sent, and leaves the statuses,
\* the magnitudes, the last reported position and temperature and the
\* armed timers as they were, the command sent or not.
C21_AbortFrame ==
    /\ [](\A o \in WriteOutcomes :
            /\ AbortFocuser(self, o).trace = <<X(CMD_FQ, FALSE, o)>>
            /\ AbortFocuser(self, o).self = self
            /\ AbortFocuser(self, o).reports = <<>>
            /\ AbortFocuser(self, o).arm = 0)
    /\ [][last'.op = "AbortFocuser" =>
            /\ Len(last'.trace) = 1
            /\ last'.trace[1].cmd = CMD_FQ
            /\ ~last'.trace[1].wantRes
            /\ last'.ret = (IF last'.arg.o = SENT THEN C_TRUE ELSE C_FALSE)
            /\ self' = self
            /\ upstream' = upstream
            /\ timers' = timers
            /\ pollTimer' = pollTimer
            /\ connection' = connection]_vars

\* C21 witness: an abort that could not be sent has returned, the timer
\* status in Alert, the relative status Busy and a timer armed.
C21_Witness ==
    /\ last.op = "AbortFocuser"
    /\ last.arg.o = WERR
    /\ last.ret = C_FALSE
    /\ self.FocusTimerNP_s = IPS_ALERT
    /\ self.FocusRelPosNP_s = IPS_BUSY
    /\ timers # {}

\* C22 as stated: the timer of a timed move stops that move only: when an
\* absolute or relative move was started after the timed move and is Busy
\* as the timer fires, the callback sends no :FQ# and leaves the newer
\* move's status Busy.
C22_Claim ==
    [][(/\ last.op \in {"MoveAbsFocuser", "MoveRelFocuser"}
        /\ last.ret = IPS_BUSY
        /\ last'.op = "timedMoveCallback") =>
            /\ Sent(last'.trace, CMD_FQ) = <<>>
            /\ IF last.op = "MoveAbsFocuser"
               THEN self'.FocusAbsPosNP_s = IPS_BUSY
               ELSE self'.FocusRelPosNP_s = IPS_BUSY]_vars

\* Whether both slew commands of the timed move that returned last were
\* sent: the set-target command and the start of motion.
SlewSent ==
    /\ Len(PositionCommands(last.trace)) = 1
    /\ PositionCommands(last.trace)[1].o = SENT
    /\ Len(Sent(last.trace, CMD_FG)) = 1
    /\ Sent(last.trace, CMD_FG)[1].o = SENT

\* C23 as stated: a timed move returns Busy and arms its timer exactly when
\* both slew commands were sent, and returns Alert with no timer armed when
\* either failed.
C23_Claim ==
    last.op = "MoveFocuser" =>
        /\ last.ret = IPS_BUSY <=> SlewSent
        /\ last.arm = 1 <=> SlewSent
        /\ ~SlewSent => last.ret = IPS_ALERT

\* C24 as stated: in every reachable state exactly one of the two coil
\* power switches, Off and On, is selected.
C24_Claim == self.CoilPowerS[1] # self.CoilPowerS[2]

====
